---- MODULE Spec2Model ----
(***************************************************************************)
(* State-machine model of the Euchre rules engine (backend/game_logic.py)  *)
(* and of the message handlers of backend/main.py that drive it.           *)
(*                                                                         *)
(* The EuchreGame object is the record `game`; every method is an operator *)
(* from a game record (and the method's arguments) to the game record the  *)
(* call leaves behind, so that a handler and everything it calls           *)
(* (play_card -> complete_trick -> complete_round -> start_next_round ->   *)
(* deal_cards) is one step.  The value a method returns is the operator    *)
(* named <method>_ret.  random.shuffle is the choice of one of NumShuffles *)
(* permutations of the deck.                                               *)
(***************************************************************************)
EXTENDS Integers, Sequences, FiniteSets, TLC

\* game: the EuchreGame object; rounds: the rounds dealt so far in the game
\* (new rounds only); wild: the accepted calls counted by Window; last_call:
\* the name of the last accepted call
VARIABLES game, rounds, wild, last_call

\* probe: the arguments and the results of one application of the card
\* functions of EuchreGame and EuchreAI
VARIABLES probe

\* ai_timers: AIManager.ai_timers, for each AI id the state of the task the
\* dict holds; pending: for each AI id the number of tasks that sleep, not
\* cancelled, before their decision; broadcast: what the last handler's
\* broadcast_game_state did: "none" when it was not called, "idle" when no
\* AI was to act, "scheduled" when a task was created, "rescheduled" when
\* a sleeping task was cancelled for the new one
VARIABLES ai_timers, pending, broadcast

\* what the engine calls of Spec leave alone
aux == <<probe, ai_timers, pending, broadcast>>

vars == <<game, rounds, wild, last_call, probe, ai_timers, pending, broadcast>>

----------------------------------------------------------------------------
(* Bounds of the exploration *)

\* number of distinct outcomes of random.shuffle that are explored
NumShuffles == 1
\* number of rounds of one game that are explored
MaxRounds == 3
\* number of accepted calls that are explored from the first call on that an
\* orderly client (one that waits for its turn) would not have sent, that
\* call included
MaxWild == 2
\* number of cards played during the bidding that are explored
MaxStray == 4
\* length of the hands on which the card functions are probed
MaxProbeHand == 2
\* length of the partial tricks on which the card functions are probed
MaxProbeTrick == 1
\* cards in the hands the bidding functions are applied to
MaxBidHand == 3
\* tricks completed in the games with AI players
MaxAITricks == 1
\* messages counted in the games with AI players
MaxAIWild == 1

----------------------------------------------------------------------------
(* Enumerations and cards *)

None == "none"

HEARTS == "hearts"
DIAMONDS == "diamonds"
CLUBS == "clubs"
SPADES == "spades"

Suit == <<HEARTS, DIAMONDS, CLUBS, SPADES>>
Suits == {Suit[i] : i \in 1..4}

NINE == 9
TEN == 10
JACK == 11
QUEEN == 12
KING == 13
ACE == 14

Rank == <<NINE, TEN, JACK, QUEEN, KING, ACE>>
Ranks == {Rank[i] : i \in 1..6}

Card(s, r) == [suit |-> s, rank |-> r]
Cards == {Card(s, r) : s \in Suits, r \in Ranks}
NoCard == [suit |-> None, rank |-> 0]

WAITING_FOR_PLAYERS == "waiting_for_players"
DEALING == "dealing"
TRUMP_SELECTION == "trump_selection"
PLAYING == "playing"
ROUND_COMPLETE == "round_complete"
GAME_COMPLETE == "game_complete"

\* ids of the clients that may call the engine; the fifth never gets a seat
JoinOrder == <<"p1", "p2", "p3", "p4", "p5">>
PlayerIds == {JoinOrder[i] : i \in 1..5}

\* ids of the AI players: add_ai_player names them after the number of
\* players seated, which is 1 to 3
AIIds == {"ai_1", "ai_2", "ai_3"}

\* the keys ai_timers can take: schedule_ai_action takes any player id
TimerIds == AIIds \cup PlayerIds

\* AIManager.__init__: no timers
NoTimers == [a \in TimerIds |-> "none"]
NoneSleeping == [a \in TimerIds |-> 0]

Trick == [cards |-> <<>>, leader |-> "", winner |-> ""]

Player(id, pos, ai) == [id |-> id, hand |-> <<>>, position |-> pos, is_ai |-> ai]

\* points at which the game ends
WinningScore == 10
\* cards dealt to each player
HandSize == 5
\* seats at the table
Seats == 4

----------------------------------------------------------------------------
(* Sequence helpers *)

Range(s) == {s[i] : i \in 1..Len(s)}

RECURSIVE IndexOf(_, _, _)
\* list.index(x) counted from position i (1-based); 0 when absent
IndexOf(s, x, i) ==
    IF i > Len(s) THEN 0
    ELSE IF s[i] = x THEN i
    ELSE IndexOf(s, x, i + 1)

\* list.remove(x): drop the first occurrence
Remove(s, x) ==
    LET i == IndexOf(s, x, 1)
    IN  IF i = 0 THEN s
        ELSE SubSeq(s, 1, i - 1) \o SubSeq(s, i + 1, Len(s))

----------------------------------------------------------------------------
(* EuchreGame.__init__ *)

NewGame ==
    [players |-> << >>,
     player_order |-> << >>,
     phase |-> WAITING_FOR_PLAYERS,
     deck |-> << >>,
     trump_suit |-> None,
     trump_card |-> NoCard,
     dealer_index |-> 0,
     current_player_index |-> 0,
     current_trick |-> Trick,
     completed_tricks |-> << >>,
     trump_maker |-> None,
     going_alone |-> None,
     team_scores |-> [t \in {0, 1} |-> 0],
     trump_selection_round |-> 1,
     trump_selection_player_index |-> 0]

----------------------------------------------------------------------------
(* Deck and deal *)

create_deck ==
    [i \in 1..24 |-> Card(Suit[((i - 1) \div 6) + 1], Rank[((i - 1) % 6) + 1])]

\* a shuffle that gives the second seat the five highest hearts and turns
\* the ten of hearts
StackedDeck ==
    << Card(DIAMONDS, ACE),  Card(HEARTS, JACK),   Card(DIAMONDS, KING), Card(DIAMONDS, QUEEN),
       Card(CLUBS, NINE),    Card(DIAMONDS, JACK), Card(CLUBS, TEN),     Card(DIAMONDS, TEN),
       Card(CLUBS, KING),    Card(HEARTS, ACE),    Card(CLUBS, ACE),     Card(CLUBS, JACK),
       Card(SPADES, TEN),    Card(HEARTS, KING),   Card(SPADES, NINE),   Card(CLUBS, QUEEN),
       Card(SPADES, QUEEN),  Card(HEARTS, QUEEN),  Card(SPADES, KING),   Card(SPADES, ACE),
       Card(HEARTS, TEN),    Card(HEARTS, NINE),   Card(DIAMONDS, NINE), Card(SPADES, JACK) >>

\* the k-th explored outcome of random.shuffle(self.deck)
Shuffle(k) ==
    IF k = 1 THEN StackedDeck
    ELSE [i \in 1..24 |-> create_deck[(((i - 1) * 7 + k) % 24) + 1]]

\* the cards the dealing loop appends to the hand of player pid: in each of
\* the five passes over player_order, the card at the player's seat
DealtHand(d, order, pid) ==
    LET n == Len(order)
        seat == IndexOf(order, pid, 1)
    IN  [j \in 1..HandSize |-> d[(j - 1) * n + seat]]

\* deal_cards turning the last card dealt instead of the next one
deal_cards_turns_dealt_card(g, k) ==
    LET d == Shuffle(k)
        n == Len(g.player_order)
    IN  [g EXCEPT
           !.deck = d,
           !.players = [p \in DOMAIN g.players |->
                          [g.players[p] EXCEPT !.hand = DealtHand(d, g.player_order, p)]],
           !.trump_card = d[HandSize * n],
           !.phase = TRUMP_SELECTION,
           !.trump_selection_round = 1,
           !.trump_selection_player_index = (g.dealer_index + 1) % 4]

\* deal_cards leaving the bidding round as it was
deal_cards_keeps_bidding_round(g, k) ==
    LET d == Shuffle(k)
        n == Len(g.player_order)
    IN  [g EXCEPT
           !.deck = d,
           !.players = [p \in DOMAIN g.players |->
                          [g.players[p] EXCEPT !.hand = DealtHand(d, g.player_order, p)]],
           !.trump_card = d[HandSize * n + 1],
           !.phase = TRUMP_SELECTION,
           !.trump_selection_player_index = (g.dealer_index + 1) % 4]

deal_cards(g, k) ==
    LET d == Shuffle(k)
        n == Len(g.player_order)
    IN  [g EXCEPT
           !.deck = d,
           !.players = [p \in DOMAIN g.players |->
                          [g.players[p] EXCEPT !.hand = DealtHand(d, g.player_order, p)]],
           !.trump_card = d[HandSize * n + 1],
           !.phase = TRUMP_SELECTION,
           !.trump_selection_round = 1,
           !.trump_selection_player_index = (g.dealer_index + 1) % 4]

----------------------------------------------------------------------------
(* Card model *)

Red == {HEARTS, DIAMONDS}
Black == {CLUBS, SPADES}

\* the colour test written out in get_card_value, is_trump, get_effective_suit
SameColor(trump_suit, suit) ==
    \/ trump_suit \in Red /\ suit \in Red
    \/ trump_suit \in Black /\ suit \in Black

get_card_value(card, trump_suit, leading_suit) ==
    IF card.rank = JACK /\ card.suit = trump_suit THEN 100
    ELSE IF card.rank = JACK /\ SameColor(trump_suit, card.suit) THEN 99
    ELSE IF card.suit = trump_suit THEN 50 + card.rank
    ELSE IF card.suit = leading_suit THEN card.rank
    ELSE 0

\* is_trump that does not know the left bower
is_trump_without_left_bower(g, card) ==
    IF g.trump_suit = None THEN FALSE
    ELSE card.suit = g.trump_suit

is_trump(g, card) ==
    IF g.trump_suit = None THEN FALSE
    ELSE IF card.suit = g.trump_suit THEN TRUE
    ELSE card.rank = JACK /\ SameColor(g.trump_suit, card.suit)

get_effective_suit(g, card) ==
    IF g.trump_suit # None /\ card.rank = JACK /\ SameColor(g.trump_suit, card.suit)
    THEN g.trump_suit
    ELSE card.suit

----------------------------------------------------------------------------
(* Trick engine *)

\* can_play_card following the suit printed on the card, not the effective suit
can_play_card_by_printed_suit(g, player_id, card) ==
    IF player_id \notin DOMAIN g.players THEN FALSE
    ELSE LET hand == g.players[player_id].hand
         IN  IF \A i \in 1..Len(hand) : hand[i] # card THEN FALSE
             ELSE IF Len(g.current_trick.cards) = 0 THEN TRUE
             ELSE LET leading_card == g.current_trick.cards[1][2]
                      leading_suit == get_effective_suit(g, leading_card)
                      has_leading_suit ==
                          \E i \in 1..Len(hand) :
                              get_effective_suit(g, hand[i]) = leading_suit
                  IN  IF has_leading_suit
                      THEN card.suit = leading_suit
                      ELSE TRUE

can_play_card(g, player_id, card) ==
    IF player_id \notin DOMAIN g.players THEN FALSE
    ELSE LET hand == g.players[player_id].hand
         IN  IF \A i \in 1..Len(hand) : hand[i] # card THEN FALSE
             ELSE IF Len(g.current_trick.cards) = 0 THEN TRUE
             ELSE LET leading_card == g.current_trick.cards[1][2]
                      leading_suit == get_effective_suit(g, leading_card)
                      has_leading_suit ==
                          \E i \in 1..Len(hand) :
                              get_effective_suit(g, hand[i]) = leading_suit
                  IN  IF has_leading_suit
                      THEN get_effective_suit(g, card) = leading_suit
                      ELSE TRUE

RECURSIVE WinnerScan(_, _, _, _, _, _)
\* the loop of complete_trick: position (1-based) of the winning entry
WinnerScan(cards, trump_suit, leading_suit, i, winner_idx, highest_value) ==
    IF i > Len(cards) THEN winner_idx
    ELSE LET card_value == get_card_value(cards[i][2], trump_suit, leading_suit)
         IN  IF card_value > highest_value
             THEN WinnerScan(cards, trump_suit, leading_suit, i + 1, i, card_value)
             ELSE WinnerScan(cards, trump_suit, leading_suit, i + 1, winner_idx, highest_value)

\* trick_winner starting its scan at the third entry
trick_winner_skips_second(g, cards) ==
    LET leading_card == cards[1][2]
        leading_suit == get_effective_suit(g, leading_card)
        winner_idx == WinnerScan(cards, g.trump_suit, leading_suit, 3, 1,
                                 get_card_value(leading_card, g.trump_suit, leading_suit))
    IN  cards[winner_idx][1]

\* winner_id of complete_trick for the four entries of a trick
trick_winner(g, cards) ==
    LET leading_card == cards[1][2]
        leading_suit == get_effective_suit(g, leading_card)
        winner_idx == WinnerScan(cards, g.trump_suit, leading_suit, 2, 1,
                                 get_card_value(leading_card, g.trump_suit, leading_suit))
    IN  cards[winner_idx][1]

\* start_next_round dealing again with the same dealer
start_next_round_keeps_dealer(g, k) ==
    deal_cards([g EXCEPT
                  !.completed_tricks = << >>,
                  !.trump_suit = None,
                  !.trump_card = NoCard,
                  !.trump_maker = None,
                  !.going_alone = None], k)

start_next_round(g, k) ==
    deal_cards([g EXCEPT
                  !.completed_tricks = << >>,
                  !.trump_suit = None,
                  !.trump_card = NoCard,
                  !.trump_maker = None,
                  !.going_alone = None,
                  !.dealer_index = (g.dealer_index + 1) % 4], k)

\* tricks won by a team among the completed tricks
team_tricks(g, team) ==
    Cardinality({i \in 1..Len(g.completed_tricks) :
                   g.players[g.completed_tricks[i].winner].position % 2 = team})

\* the team credited by complete_round
winning_team(g) == IF team_tricks(g, 0) > team_tricks(g, 1) THEN 0 ELSE 1

\* round_points crediting a sweep the same, alone or not
round_points_alone_sweep_2(g) ==
    LET trump_making_team == g.players[g.trump_maker].position % 2
        tricks_won == team_tricks(g, winning_team(g))
    IN  IF winning_team(g) = trump_making_team
        THEN IF g.going_alone # None
             THEN (IF tricks_won = 5 THEN 2 ELSE 1)
             ELSE (IF tricks_won = 5 THEN 2 ELSE 1)
        ELSE 2

\* round_points crediting 3 points for a euchre
round_points_euchre_3(g) ==
    LET trump_making_team == g.players[g.trump_maker].position % 2
        tricks_won == team_tricks(g, winning_team(g))
    IN  IF winning_team(g) = trump_making_team
        THEN IF g.going_alone # None
             THEN (IF tricks_won = 5 THEN 4 ELSE 1)
             ELSE (IF tricks_won = 5 THEN 2 ELSE 1)
        ELSE 3

\* the points credited by complete_round
round_points(g) ==
    LET trump_making_team == g.players[g.trump_maker].position % 2
        tricks_won == team_tricks(g, winning_team(g))
    IN  IF winning_team(g) = trump_making_team
        THEN IF g.going_alone # None
             THEN (IF tricks_won = 5 THEN 4 ELSE 1)
             ELSE (IF tricks_won = 5 THEN 2 ELSE 1)
        ELSE 2

complete_round(g, k) ==
    LET scored == [g EXCEPT !.team_scores[winning_team(g)] = @ + round_points(g)]
        top == IF scored.team_scores[0] > scored.team_scores[1]
               THEN scored.team_scores[0] ELSE scored.team_scores[1]
    IN  IF top >= WinningScore
        THEN [scored EXCEPT !.phase = GAME_COMPLETE]
        ELSE start_next_round(scored, k)

complete_trick(g, k) ==
    IF g.trump_suit = None \/ Len(g.current_trick.cards) # 4 THEN g
    ELSE LET winner_id == trick_winner(g, g.current_trick.cards)
             archived == [g EXCEPT
                            !.completed_tricks =
                                Append(@, [g.current_trick EXCEPT !.winner = winner_id]),
                            !.current_trick = Trick,
                            !.current_player_index =
                                IndexOf(g.player_order, winner_id, 1) - 1]
         IN  IF Len(archived.completed_tricks) = 5
             THEN complete_round(archived, k)
             ELSE archived

\* play_card leaving the turn with the player who just played
play_card_keeps_turn(g, player_id, card, k) ==
    IF ~can_play_card(g, player_id, card) THEN g
    ELSE LET played == [g EXCEPT
                          !.players[player_id].hand = Remove(@, card),
                          !.current_trick.leader =
                              IF Len(g.current_trick.cards) = 0 THEN player_id ELSE @,
                          !.current_trick.cards = Append(@, <<player_id, card>>)]
         IN  IF Len(played.current_trick.cards) = 4
             THEN complete_trick(played, k)
             ELSE played

play_card_ret(g, player_id, card) == can_play_card(g, player_id, card)

play_card(g, player_id, card, k) ==
    IF ~can_play_card(g, player_id, card) THEN g
    ELSE LET played == [g EXCEPT
                          !.players[player_id].hand = Remove(@, card),
                          !.current_trick.leader =
                              IF Len(g.current_trick.cards) = 0 THEN player_id ELSE @,
                          !.current_trick.cards = Append(@, <<player_id, card>>)]
         IN  IF Len(played.current_trick.cards) = 4
             THEN complete_trick(played, k)
             ELSE [played EXCEPT
                     !.current_player_index = (g.current_player_index + 1) % 4]

----------------------------------------------------------------------------
(* Joining and starting *)

start_game_ret(g) == Cardinality(DOMAIN g.players) = 4

\* start_game entering the DEALING phase without dealing
start_game_without_dealing(g, k) ==
    IF Cardinality(DOMAIN g.players) # 4 THEN g
    ELSE [g EXCEPT !.phase = DEALING]

start_game(g, k) ==
    IF Cardinality(DOMAIN g.players) # 4 THEN g
    ELSE deal_cards([g EXCEPT !.phase = DEALING], k)

add_player_ret(g, player_id) == Cardinality(DOMAIN g.players) < 4

\* add_player numbering the seats from 1
add_player_seats_from_one(g, player_id, is_ai, k) ==
    IF Cardinality(DOMAIN g.players) >= 4 THEN g
    ELSE LET position == Cardinality(DOMAIN g.players) + 1
             seated == [g EXCEPT
                          !.players =
                              [p \in DOMAIN g.players \cup {player_id} |->
                                  IF p = player_id
                                  THEN Player(player_id, position, is_ai)
                                  ELSE g.players[p]],
                          !.player_order = Append(@, player_id)]
         IN  IF Cardinality(DOMAIN seated.players) = 4
             THEN start_game(seated, k)
             ELSE seated

add_player(g, player_id, is_ai, k) ==
    IF Cardinality(DOMAIN g.players) >= 4 THEN g
    ELSE LET position == Cardinality(DOMAIN g.players)
             seated == [g EXCEPT
                          !.players =
                              [p \in DOMAIN g.players \cup {player_id} |->
                                  IF p = player_id
                                  THEN Player(player_id, position, is_ai)
                                  ELSE g.players[p]],
                          !.player_order = Append(@, player_id)]
         IN  IF Cardinality(DOMAIN seated.players) = 4
             THEN start_game(seated, k)
             ELSE seated

----------------------------------------------------------------------------
(* Trump negotiation *)

start_playing_phase(g) ==
    [g EXCEPT !.phase = PLAYING,
              !.current_player_index = (g.dealer_index + 1) % 4]

\* the words a client may send as the action of a trump_selection message
BidActions == {"order_up", "pass", "name_trump"}

\* the suit the handler passes on: read from the message for name_trump only
SentSuits(action) == IF action = "name_trump" THEN Suits \cup {None} ELSE {None}

\* bid_branch taking order_up in either round
bid_branch_orders_up_any_round(g, player_id, action, suit) ==
    IF g.phase # TRUMP_SELECTION THEN "reject"
    ELSE IF player_id # g.player_order[g.trump_selection_player_index + 1] THEN "reject"
    ELSE IF action = "order_up" THEN "order_up"
    ELSE IF action = "name_trump" /\ g.trump_selection_round = 2 /\ suit # None
         THEN (IF suit # g.trump_card.suit THEN "name_trump" ELSE "reject")
    ELSE IF action = "pass" THEN "pass"
    ELSE "reject"

\* the branch of handle_trump_selection a call takes
bid_branch(g, player_id, action, suit) ==
    IF g.phase # TRUMP_SELECTION THEN "reject"
    ELSE IF player_id # g.player_order[g.trump_selection_player_index + 1] THEN "reject"
    ELSE IF action = "order_up" /\ g.trump_selection_round = 1 THEN "order_up"
    ELSE IF action = "name_trump" /\ g.trump_selection_round = 2 /\ suit # None
         THEN (IF suit # g.trump_card.suit THEN "name_trump" ELSE "reject")
    ELSE IF action = "pass" THEN "pass"
    ELSE "reject"

handle_trump_selection_ret(g, player_id, action, suit) ==
    bid_branch(g, player_id, action, suit) # "reject"

\* handle_trump_selection moving the bidding seat on before it refuses
handle_trump_selection_partial(g, player_id, action, suit, k) ==
    LET branch == bid_branch(g, player_id, action, suit)
    IN  IF branch = "order_up"
        THEN LET dealer == g.player_order[g.dealer_index + 1]
             IN  start_playing_phase(
                   [g EXCEPT !.trump_suit = g.trump_card.suit,
                             !.trump_maker = player_id,
                             !.players[dealer].hand = Append(@, g.trump_card)])
        ELSE IF branch = "name_trump"
        THEN start_playing_phase(
               [g EXCEPT !.trump_suit = suit, !.trump_maker = player_id])
        ELSE IF branch = "pass"
        THEN LET next == (g.trump_selection_player_index + 1) % 4
                 passed == [g EXCEPT !.trump_selection_player_index = next]
             IN  IF g.trump_selection_round = 1 /\ next = (g.dealer_index + 1) % 4
                 THEN [passed EXCEPT !.trump_selection_round = 2]
                 ELSE IF g.trump_selection_round = 2 /\ next = (g.dealer_index + 1) % 4
                 THEN deal_cards(passed, k)
                 ELSE passed
        ELSE IF g.phase = TRUMP_SELECTION
        THEN [g EXCEPT !.trump_selection_player_index = (@ + 1) % 4]
        ELSE g

\* handle_trump_selection opening round 2 when the bidding reaches the dealer
handle_trump_selection_round_2_at_dealer(g, player_id, action, suit, k) ==
    LET branch == bid_branch(g, player_id, action, suit)
    IN  IF branch = "order_up"
        THEN LET dealer == g.player_order[g.dealer_index + 1]
             IN  start_playing_phase(
                   [g EXCEPT !.trump_suit = g.trump_card.suit,
                             !.trump_maker = player_id,
                             !.players[dealer].hand = Append(@, g.trump_card)])
        ELSE IF branch = "name_trump"
        THEN start_playing_phase(
               [g EXCEPT !.trump_suit = suit, !.trump_maker = player_id])
        ELSE IF branch = "pass"
        THEN LET next == (g.trump_selection_player_index + 1) % 4
                 passed == [g EXCEPT !.trump_selection_player_index = next]
             IN  IF g.trump_selection_round = 1 /\ next = g.dealer_index
                 THEN [passed EXCEPT !.trump_selection_round = 2]
                 ELSE IF g.trump_selection_round = 2 /\ next = (g.dealer_index + 1) % 4
                 THEN deal_cards(passed, k)
                 ELSE passed
        ELSE g

handle_trump_selection(g, player_id, action, suit, k) ==
    LET branch == bid_branch(g, player_id, action, suit)
    IN  IF branch = "order_up"
        THEN LET dealer == g.player_order[g.dealer_index + 1]
             IN  start_playing_phase(
                   [g EXCEPT !.trump_suit = g.trump_card.suit,
                             !.trump_maker = player_id,
                             !.players[dealer].hand = Append(@, g.trump_card)])
        ELSE IF branch = "name_trump"
        THEN start_playing_phase(
               [g EXCEPT !.trump_suit = suit, !.trump_maker = player_id])
        ELSE IF branch = "pass"
        THEN LET next == (g.trump_selection_player_index + 1) % 4
                 passed == [g EXCEPT !.trump_selection_player_index = next]
             IN  IF g.trump_selection_round = 1 /\ next = (g.dealer_index + 1) % 4
                 THEN [passed EXCEPT !.trump_selection_round = 2]
                 ELSE IF g.trump_selection_round = 2 /\ next = (g.dealer_index + 1) % 4
                 THEN deal_cards(passed, k)
                 ELSE passed
        ELSE g

handle_going_alone_ret(g, player_id) == player_id = g.trump_maker

\* handle_going_alone taking the declaration of any caller
handle_going_alone_by_anyone(g, player_id, going_alone) ==
    [g EXCEPT !.going_alone = IF going_alone THEN player_id ELSE None]

handle_going_alone(g, player_id, going_alone) ==
    IF player_id = g.trump_maker
    THEN [g EXCEPT !.going_alone = IF going_alone THEN player_id ELSE None]
    ELSE g

----------------------------------------------------------------------------
(* Snapshot for one player *)

\* get_game_state listing every player with the cards of the hand
get_game_state_showing_hands(g, player_id) ==
    IF player_id \notin DOMAIN g.players THEN << >>
    ELSE [phase |-> g.phase,
          player_id |-> player_id,
          player_position |-> g.players[player_id].position,
          players |-> [i \in 1..Len(g.player_order) |->
                         LET p == g.players[g.player_order[i]]
                         IN  [id |-> p.id,
                              position |-> p.position,
                              hand_size |-> Len(p.hand),
                              hand |-> p.hand,
                              is_ai |-> p.is_ai]],
          hand |-> g.players[player_id].hand,
          trump_suit |-> g.trump_suit,
          trump_card |-> g.trump_card,
          current_trick |-> [cards |-> g.current_trick.cards,
                             leader |-> g.current_trick.leader],
          completed_tricks_count |-> Len(g.completed_tricks),
          team_scores |-> g.team_scores,
          dealer_index |-> g.dealer_index,
          current_player_index |-> g.current_player_index,
          trump_selection_player_index |-> g.trump_selection_player_index,
          trump_selection_round |-> g.trump_selection_round,
          trump_maker |-> g.trump_maker,
          going_alone |-> g.going_alone]

\* the dict get_game_state returns: the empty dict for an id that has no
\* seat; the players are listed in the order they joined.  room_code, name
\* and is_connected are not part of the model
get_game_state(g, player_id) ==
    IF player_id \notin DOMAIN g.players THEN << >>
    ELSE [phase |-> g.phase,
          player_id |-> player_id,
          player_position |-> g.players[player_id].position,
          players |-> [i \in 1..Len(g.player_order) |->
                         LET p == g.players[g.player_order[i]]
                         IN  [id |-> p.id,
                              position |-> p.position,
                              hand_size |-> Len(p.hand),
                              is_ai |-> p.is_ai]],
          hand |-> g.players[player_id].hand,
          trump_suit |-> g.trump_suit,
          trump_card |-> g.trump_card,
          current_trick |-> [cards |-> g.current_trick.cards,
                             leader |-> g.current_trick.leader],
          completed_tricks_count |-> Len(g.completed_tricks),
          team_scores |-> g.team_scores,
          dealer_index |-> g.dealer_index,
          current_player_index |-> g.current_player_index,
          trump_selection_player_index |-> g.trump_selection_player_index,
          trump_selection_round |-> g.trump_selection_round,
          trump_maker |-> g.trump_maker,
          going_alone |-> g.going_alone]

----------------------------------------------------------------------------
(* EuchreAI: the card functions of ai_player.py *)

EuchreAI_is_same_color_jack(card, trump_suit) ==
    IF card.rank # JACK THEN FALSE
    ELSE \/ trump_suit \in Red /\ card.suit \in Red
         \/ trump_suit \in Black /\ card.suit \in Black

EuchreAI_is_trump(card, trump_suit) ==
    IF card.suit = trump_suit THEN TRUE
    ELSE card.rank = JACK /\ EuchreAI_is_same_color_jack(card, trump_suit)

EuchreAI_get_effective_suit(card, trump_suit) ==
    IF trump_suit # None /\ card.rank = JACK
                         /\ EuchreAI_is_same_color_jack(card, trump_suit)
    THEN trump_suit
    ELSE card.suit

EuchreAI_get_card_value(card, trump_suit) ==
    IF card.rank = JACK /\ card.suit = trump_suit THEN 100
    ELSE IF card.rank = JACK /\ EuchreAI_is_same_color_jack(card, trump_suit) THEN 99
    ELSE IF card.suit = trump_suit THEN 50 + card.rank
    ELSE card.rank

\* get_playable_cards following the suit printed on the card
EuchreAI_get_playable_cards_by_printed_suit(hand, current_trick, trump_suit) ==
    IF Len(current_trick) = 0 THEN hand
    ELSE LET leading_card == current_trick[1][2]
             leading_suit == EuchreAI_get_effective_suit(leading_card, trump_suit)
             Follows(card) == card.suit = leading_suit
             same_suit_cards == SelectSeq(hand, Follows)
         IN  IF Len(same_suit_cards) > 0 THEN same_suit_cards ELSE hand

\* get_playable_cards (a list, in hand order); current_trick is the list of
\* (player, card) entries
EuchreAI_get_playable_cards(hand, current_trick, trump_suit) ==
    IF Len(current_trick) = 0 THEN hand
    ELSE LET leading_card == current_trick[1][2]
             leading_suit == EuchreAI_get_effective_suit(leading_card, trump_suit)
             Follows(card) == EuchreAI_get_effective_suit(card, trump_suit) = leading_suit
             same_suit_cards == SelectSeq(hand, Follows)
         IN  IF Len(same_suit_cards) > 0 THEN same_suit_cards ELSE hand

RECURSIVE EuchreAI_WinningScan(_, _, _, _, _)
\* the loop of get_winning_card: the best card of the entries from i on
EuchreAI_WinningScan(current_trick, trump_suit, i, best_card, best_value) ==
    IF i > Len(current_trick) THEN best_card
    ELSE LET card == current_trick[i][2]
             card_value == EuchreAI_get_card_value(card, trump_suit)
         IN  IF card_value > best_value
             THEN EuchreAI_WinningScan(current_trick, trump_suit, i + 1, card, card_value)
             ELSE EuchreAI_WinningScan(current_trick, trump_suit, i + 1,
                                       best_card, best_value)

\* get_winning_card; None of the code is NoCard
EuchreAI_get_winning_card(current_trick, trump_suit) ==
    IF Len(current_trick) = 0 THEN NoCard
    ELSE LET leading_card == current_trick[1][2]
         IN  EuchreAI_WinningScan(current_trick, trump_suit, 2, leading_card,
                                  EuchreAI_get_card_value(leading_card, trump_suit))

\* max(cards, key) and min(cards, key) of Python: the first of the greatest,
\* the first of the least
FirstMax(cards, Key(_)) ==
    cards[CHOOSE i \in 1..Len(cards) :
            /\ \A j \in 1..Len(cards) : Key(cards[j]) <= Key(cards[i])
            /\ \A j \in 1..(i - 1) : Key(cards[j]) < Key(cards[i])]

FirstMin(cards, Key(_)) ==
    cards[CHOOSE i \in 1..Len(cards) :
            /\ \A j \in 1..Len(cards) : Key(cards[j]) >= Key(cards[i])
            /\ \A j \in 1..(i - 1) : Key(cards[j]) > Key(cards[i])]

\* the cards choose_lead_card can return: any card when no trump is set
\* (random.choice); else the highest trump when random.random() falls below
\* the aggression of the personality (0.3 to 0.8, so both outcomes exist),
\* and the first off-suit ace, the highest off-suit card or the first card
\* when it does not or no trump is held
EuchreAI_choose_lead_card(playable_cards, trump_suit) ==
    IF trump_suit = None THEN Range(playable_cards)
    ELSE LET IsTrump(card) == EuchreAI_is_trump(card, trump_suit)
             NotTrump(card) == ~EuchreAI_is_trump(card, trump_suit)
             IsAce(card) == card.rank = ACE
             Value(card) == EuchreAI_get_card_value(card, trump_suit)
             RankValue(card) == card.rank
             trump_cards == SelectSeq(playable_cards, IsTrump)
             non_trump_cards == SelectSeq(playable_cards, NotTrump)
             aces == SelectSeq(non_trump_cards, IsAce)
         IN  (IF Len(trump_cards) > 0 THEN {FirstMax(trump_cards, Value)} ELSE {})
               \cup (IF Len(non_trump_cards) > 0
                     THEN (IF Len(aces) > 0 THEN {aces[1]}
                           ELSE {FirstMax(non_trump_cards, RankValue)})
                     ELSE {playable_cards[1]})

\* the cards choose_follow_card can return
EuchreAI_choose_follow_card(playable_cards, current_trick, trump_suit) ==
    IF trump_suit = None THEN Range(playable_cards)
    ELSE LET current_best_card == EuchreAI_get_winning_card(current_trick, trump_suit)
             Value(card) == EuchreAI_get_card_value(card, trump_suit)
             Wins(card) == Value(card) > Value(current_best_card)
             winning_cards == SelectSeq(playable_cards, Wins)
         IN  IF Len(winning_cards) > 0
             THEN {FirstMin(winning_cards, Value)}
             ELSE {FirstMin(playable_cards, Value)}

\* choose_card_to_play choosing among all the cards of the hand
EuchreAI_choose_card_to_play_from_whole_hand(hand, game_state, current_trick) ==
    LET trump_suit == game_state.trump_suit
        playable_cards == hand
    IN  IF Len(playable_cards) = 0
        THEN (IF Len(hand) = 0 THEN {} ELSE {hand[1]})
        ELSE IF Len(current_trick) = 0
        THEN EuchreAI_choose_lead_card(playable_cards, trump_suit)
        ELSE EuchreAI_choose_follow_card(playable_cards, current_trick, trump_suit)

\* the cards choose_card_to_play can return, over the personalities and the
\* outcomes of random; game_state is the dict of get_game_state.  With an
\* empty hand hand[0] raises IndexError: no card is returned
EuchreAI_choose_card_to_play(hand, game_state, current_trick) ==
    LET trump_suit == game_state.trump_suit
        playable_cards == EuchreAI_get_playable_cards(hand, current_trick, trump_suit)
    IN  IF Len(playable_cards) = 0
        THEN (IF Len(hand) = 0 THEN {} ELSE {hand[1]})
        ELSE IF Len(current_trick) = 0
        THEN EuchreAI_choose_lead_card(playable_cards, trump_suit)
        ELSE EuchreAI_choose_follow_card(playable_cards, current_trick, trump_suit)

----------------------------------------------------------------------------
(* EuchreAI: the bidding functions of ai_player.py *)

\* AI_PERSONALITIES, the four fields in tenths
AI_PERSONALITIES ==
    <<[name |-> "Ada", aggression |-> 7, conservatism |-> 3,
       partnership_focus |-> 8, risk_tolerance |-> 6],
      [name |-> "Bob", aggression |-> 3, conservatism |-> 7,
       partnership_focus |-> 6, risk_tolerance |-> 4],
      [name |-> "Clara", aggression |-> 8, conservatism |-> 2,
       partnership_focus |-> 5, risk_tolerance |-> 8],
      [name |-> "Dave", aggression |-> 5, conservatism |-> 5,
       partnership_focus |-> 9, risk_tolerance |-> 5]>>

Personalities == {AI_PERSONALITIES[i] : i \in 1..Len(AI_PERSONALITIES)}

\* the outcomes of strength >= threshold, both in the same unit.  The code
\* compares floats: away from equality the outcome is the one of the exact
\* numbers; at equality the rounding of the sum and of the threshold
\* decides, and both outcomes are kept
AtLeast(strength, threshold) ==
    IF strength > threshold THEN {TRUE}
    ELSE IF strength < threshold THEN {FALSE}
    ELSE BOOLEAN

RECURSIVE CardStrengths(_, _, _)
\* the sum of the loop of evaluate_hand_strength over hand[i..], in
\* hundredths: right bower 25, left bower 20, trump ace 15, other trump 8,
\* off-suit ace 5
CardStrengths(hand, trump_suit, i) ==
    IF i > Len(hand) THEN 0
    ELSE LET card == hand[i]
             this == IF EuchreAI_is_trump(card, trump_suit)
                     THEN (IF card.rank = JACK /\ card.suit = trump_suit THEN 25
                           ELSE IF card.rank = JACK
                                   /\ EuchreAI_is_same_color_jack(card, trump_suit)
                           THEN 20
                           ELSE IF card.rank = ACE THEN 15
                           ELSE 8)
                     ELSE IF card.rank = ACE THEN 5
                     ELSE 0
         IN  this + CardStrengths(hand, trump_suit, i + 1)

\* evaluate_hand_strength adding no bonus for the number of trump cards
EuchreAI_evaluate_hand_strength_without_bonus(hand, trump_suit) ==
    IF trump_suit = None THEN 0
    ELSE LET off_aces == Cardinality({i \in 1..Len(hand) :
                            /\ ~EuchreAI_is_trump(hand[i], trump_suit)
                            /\ hand[i].rank = ACE})
             strength == CardStrengths(hand, trump_suit, 1) + off_aces * 3
         IN  IF strength < 100 THEN strength ELSE 100

\* evaluate_hand_strength, in hundredths
EuchreAI_evaluate_hand_strength(hand, trump_suit) ==
    IF trump_suit = None THEN 0
    ELSE LET trump_count == Cardinality({i \in 1..Len(hand) :
                               EuchreAI_is_trump(hand[i], trump_suit)})
             off_aces == Cardinality({i \in 1..Len(hand) :
                            /\ ~EuchreAI_is_trump(hand[i], trump_suit)
                            /\ hand[i].rank = ACE})
             strength == CardStrengths(hand, trump_suit, 1)
                           + (IF trump_count >= 3 THEN 15
                              ELSE IF trump_count >= 2 THEN 8
                              ELSE 0)
                           + off_aces * 3
         IN  IF strength < 100 THEN strength ELSE 100

\* should_call_trump calling the turned suit in either round
EuchreAI_should_call_trump_turned_suit(personality, hand, trump_card, is_dealer, round_num) ==
    LET strength == EuchreAI_evaluate_hand_strength(hand, trump_card.suit)
        threshold == 40 - personality.aggression * 2
                        - (IF is_dealer THEN 10 ELSE 0)
    IN  {[call |-> b, suit |-> IF b THEN trump_card.suit ELSE None]
            : b \in AtLeast(strength, threshold)}

\* should_call_trump: the pairs (should_call, suit) it can return.  In
\* round 2 the loop keeps the first suit whose strength is greater than the
\* best so far, starting from 0.0; suits of equal exact strength are told
\* apart by the rounding of their sums, so each of them is kept.  The
\* threshold of round 2 is counted in halves of a hundredth
EuchreAI_should_call_trump(personality, hand, trump_card, is_dealer, round_num) ==
    IF round_num = 1
    THEN LET strength == EuchreAI_evaluate_hand_strength(hand, trump_card.suit)
             threshold == 40 - personality.aggression * 2
                             - (IF is_dealer THEN 10 ELSE 0)
         IN  {[call |-> b, suit |-> IF b THEN trump_card.suit ELSE None]
                 : b \in AtLeast(strength, threshold)}
    ELSE LET others == Suits \ {trump_card.suit}
             Strength(su) == EuchreAI_evaluate_hand_strength(hand, su)
             best_suits == {su \in others :
                              /\ Strength(su) > 0
                              /\ \A o \in others : Strength(o) <= Strength(su)}
             threshold == 100 - personality.aggression * 5
         IN  IF best_suits = {} THEN {[call |-> FALSE, suit |-> None]}
             ELSE {[call |-> b, suit |-> IF b THEN su ELSE None]
                     : b \in UNION {AtLeast(2 * Strength(su), threshold)
                                       : su \in best_suits},
                       su \in best_suits}

\* should_go_alone requiring four trump cards beside the bowers
EuchreAI_should_go_alone_with_4_trump(personality, hand, trump_suit) ==
    IF personality.risk_tolerance < 3 THEN {FALSE}
    ELSE LET strength == EuchreAI_evaluate_hand_strength(hand, trump_suit)
             threshold == 80 - personality.risk_tolerance * 2
             has_right_bower == \E i \in 1..Len(hand) :
                                   hand[i].rank = JACK /\ hand[i].suit = trump_suit
             has_left_bower == \E i \in 1..Len(hand) :
                                  /\ hand[i].rank = JACK
                                  /\ EuchreAI_is_same_color_jack(hand[i], trump_suit)
             trump_count == Cardinality({i \in 1..Len(hand) :
                               EuchreAI_is_trump(hand[i], trump_suit)})
         IN  IF has_right_bower /\ has_left_bower /\ trump_count >= 4 THEN {TRUE}
             ELSE IF TRUE \in AtLeast(strength, threshold) THEN BOOLEAN
             ELSE {FALSE}

\* should_go_alone: the answers it can return; past the bowers the answer
\* is strength >= threshold and random.random() < aggression, and the
\* aggression lies strictly between 0 and 1
EuchreAI_should_go_alone(personality, hand, trump_suit) ==
    IF personality.risk_tolerance < 3 THEN {FALSE}
    ELSE LET strength == EuchreAI_evaluate_hand_strength(hand, trump_suit)
             threshold == 80 - personality.risk_tolerance * 2
             has_right_bower == \E i \in 1..Len(hand) :
                                   hand[i].rank = JACK /\ hand[i].suit = trump_suit
             has_left_bower == \E i \in 1..Len(hand) :
                                  /\ hand[i].rank = JACK
                                  /\ EuchreAI_is_same_color_jack(hand[i], trump_suit)
             trump_count == Cardinality({i \in 1..Len(hand) :
                               EuchreAI_is_trump(hand[i], trump_suit)})
         IN  IF has_right_bower /\ has_left_bower /\ trump_count >= 3 THEN {TRUE}
             ELSE IF TRUE \in AtLeast(strength, threshold) THEN BOOLEAN
             ELSE {FALSE}

----------------------------------------------------------------------------
(* Probes: one application of the card functions to arguments of any kind *)

\* the cards of the probed hands and tricks: the bowers and a plain card of
\* every suit
ProbeRanks == {NINE, JACK}
ProbeCards == {Card(su, r) : su \in Suits, r \in ProbeRanks}

\* the lists of at most n different elements of S
Arrangements(S, n) ==
    UNION {{f \in [1..m -> S] : \A i, j \in 1..m : i # j => f[i] # f[j]} : m \in 0..n}

\* what the functions return, per function
NoResults ==
    [is_trump |-> FALSE, get_effective_suit |-> None, get_card_value |-> 0,
     playable |-> {}, winning_card |-> NoCard, follow |-> {}]

NoProbe ==
    [card |-> Card(HEARTS, NINE), trump_suit |-> None, leading_suit |-> HEARTS,
     hand |-> << >>, trick |-> << >>,
     applied |-> FALSE, engine |-> NoResults, ai |-> NoResults]

\* the arguments: every card with every trump suit (or none) and lead suit;
\* every hand with every partial trick of other cards and every trump suit
ProbeInputs ==
    {[NoProbe EXCEPT !.card = c, !.trump_suit = t, !.leading_suit = l] :
        c \in Cards, t \in Suits \cup {None}, l \in Suits}
      \cup
    {[NoProbe EXCEPT !.hand = hk[1],
                     !.trick = [i \in 1..Len(hk[2]) |-> <<"p2", hk[2][i]>>],
                     !.trump_suit = t] :
        hk \in {x \in Arrangements(ProbeCards, MaxProbeHand)
                        \X Arrangements(ProbeCards, MaxProbeTrick) :
                  Range(x[1]) \cap Range(x[2]) = {}},
        t \in Suits \cup {None}}

\* a game in which p1 holds the probed hand, p2 has played the probed trick
\* and the probed suit is trump
ProbeGame(pr) ==
    [NewGame EXCEPT
       !.players = [q \in {"p1"} |-> [Player("p1", 0, FALSE) EXCEPT !.hand = pr.hand]],
       !.player_order = <<"p1">>,
       !.phase = PLAYING,
       !.trump_suit = pr.trump_suit,
       !.current_trick = [Trick EXCEPT !.cards = pr.trick]]

\* the results of EuchreGame; the winning card is the one the loop of
\* complete_trick finds on the trick so far
EngineResults(pr) ==
    LET g == ProbeGame(pr)
    IN  [is_trump |-> is_trump(g, pr.card),
         get_effective_suit |-> get_effective_suit(g, pr.card),
         get_card_value |-> get_card_value(pr.card, pr.trump_suit, pr.leading_suit),
         playable |-> {c \in Range(pr.hand) : can_play_card(g, "p1", c)},
         winning_card |->
             IF Len(pr.trick) = 0 THEN NoCard
             ELSE LET leading_suit == get_effective_suit(g, pr.trick[1][2])
                  IN  pr.trick[WinnerScan(pr.trick, pr.trump_suit, leading_suit, 2, 1,
                                          get_card_value(pr.trick[1][2], pr.trump_suit,
                                                         leading_suit))][2]]

\* the results of EuchreAI; follow holds the cards choose_follow_card can
\* return for the hand on the trick
AIResults(pr) ==
    [is_trump |-> EuchreAI_is_trump(pr.card, pr.trump_suit),
     get_effective_suit |-> EuchreAI_get_effective_suit(pr.card, pr.trump_suit),
     get_card_value |-> EuchreAI_get_card_value(pr.card, pr.trump_suit),
     playable |-> Range(EuchreAI_get_playable_cards(pr.hand, pr.trick, pr.trump_suit)),
     winning_card |-> EuchreAI_get_winning_card(pr.trick, pr.trump_suit),
     follow |->
         IF Len(pr.trick) = 0 \/ Len(pr.hand) = 0 THEN {}
         ELSE EuchreAI_choose_follow_card(
                 EuchreAI_get_playable_cards(pr.hand, pr.trick, pr.trump_suit),
                 pr.trick, pr.trump_suit)]

----------------------------------------------------------------------------
(* Orderly clients and the calls that depart from them *)

RECURSIVE FirstPlayable(_, _, _)
\* the first card of the hand, in hand order, that can_play_card accepts
FirstPlayable(g, player_id, i) ==
    IF i > Len(g.players[player_id].hand) THEN NoCard
    ELSE IF can_play_card(g, player_id, g.players[player_id].hand[i])
         THEN g.players[player_id].hand[i]
         ELSE FirstPlayable(g, player_id, i + 1)

\* the cards a client picks from: the first card of its hand that the engine
\* accepts
PlayChoices(g, player_id) ==
    IF player_id \notin DOMAIN g.players THEN {}
    ELSE {FirstPlayable(g, player_id, 1)} \ {NoCard}

\* the play of a client that waits for its turn and plays its first legal card
OrderlyPlay(g, player_id, card) ==
    /\ g.phase = PLAYING
    /\ player_id = g.player_order[g.current_player_index + 1]
    /\ card = FirstPlayable(g, player_id, 1)

\* the declaration of a maker who goes alone, made before the first card
OrderlyAlone(g, player_id, going_alone) ==
    /\ g.phase = PLAYING
    /\ going_alone
    /\ g.going_alone = None
    /\ Len(g.current_trick.cards) = 0
    /\ Len(g.completed_tricks) = 0

\* nothing has been called since the last deal
FreshDeal(g) ==
    /\ g.phase = TRUMP_SELECTION
    /\ g.trump_selection_round = 1
    /\ g.trump_selection_player_index = (g.dealer_index + 1) % 4
    /\ g.trump_suit = None
    /\ Len(g.current_trick.cards) = 0
    /\ Len(g.completed_tricks) = 0
    /\ \A p \in DOMAIN g.players : Len(g.players[p].hand) = HandSize

\* no bid has been made since the last deal
FreshDealt(g) ==
    /\ g.phase = TRUMP_SELECTION
    /\ g.trump_selection_round = 1
    /\ g.trump_selection_player_index = (g.dealer_index + 1) % 4
    /\ g.trump_suit = None

\* a play that scores the round and deals the next one
StartsRound(g, h) ==
    /\ Len(g.completed_tricks) = 4
    /\ Len(h.completed_tricks) = 0

\* the states in which a first call that an orderly client would not have
\* sent is explored: the bidding of the first round and its play up to the
\* first card, and the finished game
Opening(g) ==
    \/ g.phase = GAME_COMPLETE
    \/ /\ g.team_scores[0] + g.team_scores[1] = 0
       /\ g.phase \in {TRUMP_SELECTION, PLAYING}
       /\ Len(g.completed_tricks) = 0
       /\ Len(g.current_trick.cards) <= 1

\* the exploration window: an orderly call is free until the first call that
\* is not; from that call on every accepted call is counted
Window(orderly) ==
    IF wild = 0 /\ orderly
    THEN wild' = 0
    ELSE /\ wild < MaxWild
         /\ wild > 0 \/ Opening(game)
         /\ wild' = wild + 1

\* the outcomes of random.shuffle a call can see: one when it deals no cards
Draws(dealing) == IF dealing THEN 1..NumShuffles ELSE {1}

----------------------------------------------------------------------------
(* Handlers *)

Init ==
    /\ game = NewGame
    /\ rounds = 0
    /\ wild = 0
    /\ last_call = "__init__"
    /\ probe = NoProbe
    /\ ai_timers = NoTimers
    /\ pending = NoneSleeping
    /\ broadcast = "none"

\* create_room, join_room, add_ai_player: a fresh id asks for a seat
AddPlayer(player_id, is_ai) ==
    /\ player_id = JoinOrder[Cardinality(DOMAIN game.players) + 1]
    /\ add_player_ret(game, player_id)
    /\ Window(TRUE)
    /\ \E k \in Draws(Cardinality(DOMAIN game.players) = 3) :
          game' = add_player(game, player_id, is_ai, k)
    /\ rounds' = IF Cardinality(DOMAIN game.players) = 3 THEN 1 ELSE rounds
    /\ last_call' = "add_player"
    /\ UNCHANGED aux

\* the start_game message
StartGame ==
    /\ start_game_ret(game)
    /\ Window(FreshDeal(game))
    /\ \E k \in Draws(TRUE) : game' = start_game(game, k)
    /\ last_call' = "start_game"
    /\ UNCHANGED aux
    /\ UNCHANGED rounds

\* the trump_selection message
TrumpSelection(player_id, action, suit) ==
    /\ handle_trump_selection_ret(game, player_id, action, suit)
    /\ Window(TRUE)
    /\ \E k \in Draws(action = "pass" /\ game.trump_selection_round = 2) :
          game' = handle_trump_selection(game, player_id, action, suit, k)
    /\ last_call' = action
    /\ UNCHANGED aux
    /\ UNCHANGED rounds

\* the going_alone message
GoingAlone(player_id, going_alone) ==
    /\ handle_going_alone_ret(game, player_id)
    /\ Window(OrderlyAlone(game, player_id, going_alone))
    /\ game' = handle_going_alone(game, player_id, going_alone)
    /\ last_call' = "going_alone"
    /\ UNCHANGED aux
    /\ UNCHANGED rounds

\* the play_card message
PlayCard(player_id, card) ==
    /\ play_card_ret(game, player_id, card)
    /\ Window(OrderlyPlay(game, player_id, card))
    /\ \E k \in Draws(Len(game.completed_tricks) = 4
                        /\ Len(game.current_trick.cards) = 3) :
          game' = play_card(game, player_id, card, k)
    /\ rounds' = IF StartsRound(game, game') THEN rounds + 1 ELSE rounds
    /\ rounds' <= MaxRounds
    /\ last_call' = "play_card"
    /\ UNCHANGED aux

\* the discard_card message, from any seated player with any card:
\* EuchreGame has no handle_dealer_discard, so the call raises AttributeError
\* before anything is changed
DiscardCard ==
    /\ DOMAIN game.players # {}
    /\ UNCHANGED vars

\* some call returns False in the current state
SomeCallRejected ==
    \/ \E p \in PlayerIds : ~add_player_ret(game, p)
    \/ ~start_game_ret(game)
    \/ \E p \in PlayerIds, a \in BidActions :
          \E s \in SentSuits(a) : ~handle_trump_selection_ret(game, p, a, s)
    \/ \E p \in PlayerIds : ~handle_going_alone_ret(game, p)
    \/ \E p \in PlayerIds, c \in Cards : ~play_card_ret(game, p, c)

\* a call that returns False changes nothing
Rejected ==
    IF SomeCallRejected THEN UNCHANGED vars ELSE FALSE

Next ==
    \/ \E p \in PlayerIds, ai \in {FALSE} : AddPlayer(p, ai)
    \/ StartGame
    \/ \E p \in PlayerIds, a \in BidActions :
          \E s \in SentSuits(a) :
             TrumpSelection(p, a, s)
    \/ \E p \in PlayerIds, b \in BOOLEAN : GoingAlone(p, b)
    \/ \E p \in PlayerIds : \E c \in PlayChoices(game, p) : PlayCard(p, c)
    \/ DiscardCard
    \/ Rejected

Spec == Init /\ [][Next]_vars

----------------------------------------------------------------------------
(* Plays during the bidding *)

\* the play_card message of a client that does not wait for the bidding to
\* end, sent before the first bid of the first deal
StrayPlay(player_id, card) ==
    /\ FreshDealt(game)
    /\ rounds = 1
    /\ Len(game.current_trick.cards) < MaxStray
    /\ play_card_ret(game, player_id, card)
    /\ game' = play_card(game, player_id, card, 1)
    /\ last_call' = "play_card"
    /\ UNCHANGED <<rounds, wild>>
    /\ UNCHANGED aux

NextStray ==
    \/ \E p \in PlayerIds, ai \in {FALSE} : AddPlayer(p, ai)
    \/ \E p \in PlayerIds : \E c \in PlayChoices(game, p) : StrayPlay(p, c)

SpecStray == Init /\ [][NextStray]_vars

----------------------------------------------------------------------------
(* The card functions on their own *)

InitCards ==
    /\ game = NewGame
    /\ rounds = 0
    /\ wild = 0
    /\ last_call = "__init__"
    /\ probe \in ProbeInputs
    /\ ai_timers = NoTimers
    /\ pending = NoneSleeping
    /\ broadcast = "none"

\* the functions of both classes are applied to the arguments
ApplyCardFunctions ==
    /\ ~probe.applied
    /\ probe' = [probe EXCEPT !.applied = TRUE,
                              !.engine = EngineResults(probe),
                              !.ai = AIResults(probe)]
    /\ UNCHANGED <<game, rounds, wild, last_call, ai_timers, pending, broadcast>>

SpecCards == InitCards /\ [][ApplyCardFunctions]_vars

----------------------------------------------------------------------------
(* The bidding functions on their own *)

\* the cards of the probed hands: the bowers, the aces and a plain card of
\* every suit, in the order of the deck
BidRanks == {NINE, JACK, ACE}
BidDeck ==
    LET Probed(card) == card.rank \in BidRanks
    IN  SelectSeq(create_deck, Probed)

RECURSIVE Picked(_, _)
\* the cards of BidDeck at the indices I, from index i on, in deck order
Picked(I, i) ==
    IF i > Len(BidDeck) THEN << >>
    ELSE (IF i \in I THEN <<BidDeck[i]>> ELSE << >>) \o Picked(I, i + 1)

\* the hands of up to MaxBidHand cards
BidHands ==
    {Picked(I, 1) : I \in {J \in SUBSET (1..Len(BidDeck)) :
                              Cardinality(J) <= MaxBidHand}}

\* the arguments of one bid of the AI "ai_1": its hand, the turned card (a
\* ten, which no probed hand holds), whether it deals, the round and its
\* personality
BidInputs ==
    {[hand |-> h, trump_card |-> Card(su, TEN), is_dealer |-> d,
      round_num |-> r, personality |-> p, applied |-> FALSE,
      strength |-> 0, strength_no_trump |-> 0,
      calls |-> {}, alone |-> {}, accepted |-> {}]
        : h \in BidHands, su \in Suits, d \in BOOLEAN, r \in {1, 2},
          p \in Personalities}

\* a game in which the AI "ai_1" holds the probed hand and is the seat to
\* bid in the probed round, as the dealer (seat 0) or not (seat 1)
BidGame(pr) ==
    LET seat == IF pr.is_dealer THEN 0 ELSE 1
        ids == <<"p1", "p2", "p3">>
        order == IF pr.is_dealer THEN <<"ai_1">> \o ids
                 ELSE <<"p1", "ai_1", "p2", "p3">>
    IN  [NewGame EXCEPT
           !.players = [q \in Range(order) |->
                           IF q = "ai_1"
                           THEN [Player(q, seat, TRUE) EXCEPT !.hand = pr.hand]
                           ELSE Player(q, IndexOf(order, q, 1) - 1, FALSE)],
           !.player_order = order,
           !.phase = TRUMP_SELECTION,
           !.trump_card = pr.trump_card,
           !.dealer_index = 0,
           !.trump_selection_round = pr.round_num,
           !.trump_selection_player_index = seat]

\* the bid handle_ai_trump_selection sends for an answer of
\* should_call_trump, and whether handle_trump_selection returns True
BidAccepted(pr, answer) ==
    IF answer.call /\ answer.suit # None
    THEN handle_trump_selection_ret(BidGame(pr), "ai_1",
                                    IF pr.round_num = 1 THEN "order_up"
                                    ELSE "name_trump",
                                    answer.suit)
    ELSE handle_trump_selection_ret(BidGame(pr), "ai_1", "pass", None)

InitBids ==
    /\ game = NewGame
    /\ rounds = 0
    /\ wild = 0
    /\ last_call = "__init__"
    /\ probe \in BidInputs
    /\ ai_timers = NoTimers
    /\ pending = NoneSleeping
    /\ broadcast = "none"

\* the bidding functions are applied to the arguments; a call is judged
\* for going alone in the suit it names
ApplyBidFunctions ==
    /\ ~probe.applied
    /\ probe' =
          [probe EXCEPT
             !.applied = TRUE,
             !.strength = EuchreAI_evaluate_hand_strength(probe.hand,
                                                          probe.trump_card.suit),
             !.strength_no_trump = EuchreAI_evaluate_hand_strength(probe.hand, None),
             !.calls = EuchreAI_should_call_trump(probe.personality, probe.hand,
                                                  probe.trump_card, probe.is_dealer,
                                                  probe.round_num),
             !.alone = EuchreAI_should_go_alone(probe.personality, probe.hand,
                                                probe.trump_card.suit),
             !.accepted =
                 {BidAccepted(probe, answer) :
                    answer \in EuchreAI_should_call_trump(probe.personality,
                                                          probe.hand, probe.trump_card,
                                                          probe.is_dealer,
                                                          probe.round_num)}]
    /\ UNCHANGED <<game, rounds, wild, last_call, ai_timers, pending, broadcast>>

SpecBids == InitBids /\ [][ApplyBidFunctions]_vars

----------------------------------------------------------------------------
(* The AI dispatch of main.py *)

\* the task states of ai_timers: no entry, a task in its sleep, a task whose
\* sleep is over
TimerStates == {"none", "sleeping", "done"}

\* the humans seated
Humans(g) == {p \in DOMAIN g.players : ~g.players[p].is_ai}

\* the creator of the room has sent leave_room: it opened the room, so it is
\* missing from a game that has players only when it left
CreatorLeft(g) == DOMAIN g.players # {} /\ "p1" \notin DOMAIN g.players

\* len(manager.rooms[room]['players']): the humans that ever joined
RoomPlayers(g) == Cardinality(Humans(g)) + (IF CreatorLeft(g) THEN 1 ELSE 0)

\* schedule_ai_action creating the task without cancelling the one it holds
schedule_ai_action_stacking(timers, pend, player_id) ==
    [ai_timers |-> [timers EXCEPT ![player_id] = "sleeping"],
     pending   |-> [pend EXCEPT ![player_id] = @ + 1],
     broadcast |-> "scheduled"]

\* AIManager.schedule_ai_action: the task of the id, if any, is cancelled (a
\* task in its sleep never decides; cancelling a finished one does nothing)
\* and a new task starts its sleep
schedule_ai_action(timers, pend, player_id) ==
    LET cancelled == IF timers[player_id] = "sleeping"
                     THEN [pend EXCEPT ![player_id] = @ - 1]
                     ELSE pend
    IN  [ai_timers |-> [timers EXCEPT ![player_id] = "sleeping"],
         pending   |-> [cancelled EXCEPT ![player_id] = @ + 1],
         broadcast |-> IF timers[player_id] = "sleeping"
                       THEN "rescheduled" ELSE "scheduled"]

\* the current_player_id of check_ai_turn
current_player_id(g) ==
    IF g.phase = TRUMP_SELECTION
    THEN g.player_order[g.trump_selection_player_index + 1]
    ELSE IF g.phase = PLAYING
    THEN g.player_order[g.current_player_index + 1]
    ELSE None

\* check_ai_turn scheduling a decision for the player to act, AI or human
check_ai_turn_for_any_player(g, timers, pend) ==
    LET id == current_player_id(g)
    IN  IF id \in DOMAIN g.players
        THEN schedule_ai_action(timers, pend, id)
        ELSE [ai_timers |-> timers, pending |-> pend, broadcast |-> "idle"]

\* check_ai_turn, the last call of broadcast_game_state
check_ai_turn(g, timers, pend) ==
    LET id == current_player_id(g)
    IN  IF id \in DOMAIN g.players /\ g.players[id].is_ai
        THEN schedule_ai_action(timers, pend, id)
        ELSE [ai_timers |-> timers, pending |-> pend, broadcast |-> "idle"]

\* a handler ends: with broadcast_game_state when its call succeeded
Ends(success, g, timers, pend) ==
    IF success
    THEN LET b == check_ai_turn(g, timers, pend)
         IN  /\ ai_timers' = b.ai_timers
             /\ pending' = b.pending
             /\ broadcast' = b.broadcast
    ELSE /\ ai_timers' = timers
         /\ pending' = pend
         /\ broadcast' = "none"

\* should_call_trump: the suit the AI calls, None for a pass. Round 1 offers
\* the turned suit, round 2 the three others; the hand and the personality
\* drawn by create_ai_player decide, and every answer is kept
should_call_trump(g) ==
    {None} \cup (IF g.trump_selection_round = 1
                 THEN {g.trump_card.suit}
                 ELSE Suits \ {g.trump_card.suit})

\* handle_ai_trump_selection: the games it can leave, each with whether it
\* broadcast
handle_ai_trump_selection(g, player_id) ==
    UNION {
      IF suit # None
      THEN LET action == IF g.trump_selection_round = 1
                         THEN "order_up" ELSE "name_trump"
           IN  IF handle_trump_selection_ret(g, player_id, action, suit)
               THEN LET called == handle_trump_selection(g, player_id, action, suit, 1)
                    IN  {[game |-> IF should_go_alone
                                   THEN handle_going_alone(called, player_id, TRUE)
                                   ELSE called,
                          success |-> TRUE] : should_go_alone \in BOOLEAN}
               ELSE {[game |-> g, success |-> FALSE]}
      ELSE IF handle_trump_selection_ret(g, player_id, "pass", None)
           THEN {[game |-> handle_trump_selection(g, player_id, "pass", None, k),
                  success |-> TRUE] : k \in {1}}
           ELSE {[game |-> g, success |-> FALSE]}
      : suit \in should_call_trump(g)}

\* handle_ai_card_play; with an empty hand choose_card_to_play raises
\* IndexError
handle_ai_card_play(g, player_id) ==
    LET player == g.players[player_id]
    IN  IF g.current_player_index # player.position \/ Len(player.hand) = 0
        THEN {[game |-> g, success |-> FALSE]}
        ELSE {IF play_card_ret(g, player_id, card_to_play)
              THEN [game |-> play_card(g, player_id, card_to_play, 1),
                    success |-> TRUE]
              ELSE [game |-> g, success |-> FALSE]
              : card_to_play \in
                  EuchreAI_choose_card_to_play(player.hand,
                                               get_game_state(g, player_id),
                                               g.current_trick.cards)}

\* make_ai_decision: an exception of the handlers (KeyError for an id that
\* left the game) is logged and nothing else happens
make_ai_decision(g, player_id) ==
    IF player_id \notin DOMAIN g.players
    THEN {[game |-> g, success |-> FALSE]}
    ELSE IF g.phase = TRUMP_SELECTION
    THEN handle_ai_trump_selection(g, player_id)
    ELSE IF g.phase = PLAYING
    THEN handle_ai_card_play(g, player_id)
    ELSE {[game |-> g, success |-> FALSE]}

\* the messages of the humans: a message an orderly client would send is
\* free until the first that is not; from that one on every accepted message
\* is counted
Sent(orderly) ==
    IF wild = 0 /\ orderly
    THEN wild' = 0
    ELSE /\ wild < MaxAIWild
         /\ wild > 0 \/ Opening(game)
         /\ wild' = wild + 1

\* create_room and join_room of a human: the room takes four humans
join_room(player_id) ==
    /\ RoomPlayers(game) < 4
    /\ player_id = JoinOrder[RoomPlayers(game) + 1]
    /\ add_player_ret(game, player_id)
    /\ game' = add_player(game, player_id, FALSE, 1)
    /\ Ends(TRUE, game', ai_timers, pending)
    /\ rounds' = IF Cardinality(DOMAIN game.players) = 3 THEN 1 ELSE rounds
    /\ last_call' = "add_player"
    /\ UNCHANGED <<wild, probe>>

\* the add_ai_player message of a seated human; the id is built from the
\* number of players
add_ai_player ==
    /\ Humans(game) # {}
    /\ Cardinality(DOMAIN game.players) < 4
    /\ LET ai_player_id ==
               CHOOSE a \in AIIds :
                  a = <<"ai_1", "ai_2", "ai_3">>[Cardinality(DOMAIN game.players)]
       IN  /\ ai_player_id \notin DOMAIN game.players
           /\ game' = add_player(game, ai_player_id, TRUE, 1)
    /\ Ends(TRUE, game', ai_timers, pending)
    /\ rounds' = IF Cardinality(DOMAIN game.players) = 3 THEN 1 ELSE rounds
    /\ last_call' = "add_player"
    /\ UNCHANGED <<wild, probe>>

\* the leave_room message of the creator while the room waits for players
\* and others stay: nothing is broadcast and no task is cancelled
leave_room(player_id) ==
    /\ player_id = "p1"
    /\ player_id \in DOMAIN game.players
    /\ game.phase = WAITING_FOR_PLAYERS
    /\ Cardinality(DOMAIN game.players) > 1
    /\ game' = [game EXCEPT
                  !.players = [p \in DOMAIN game.players \ {player_id} |->
                                  game.players[p]],
                  !.player_order = Remove(@, player_id)]
    /\ last_call' = "leave_room"
    /\ broadcast' = "none"
    /\ UNCHANGED <<rounds, wild, probe, ai_timers, pending>>

\* the start_game message of a human
start_game_message ==
    /\ Humans(game) # {}
    /\ start_game_ret(game)
    /\ Sent(FreshDeal(game))
    /\ game' = start_game(game, 1)
    /\ Ends(TRUE, game', ai_timers, pending)
    /\ last_call' = "start_game"
    /\ UNCHANGED <<rounds, probe>>

\* the trump_selection message of a human
trump_selection_message(player_id, action, suit) ==
    /\ player_id \in Humans(game)
    /\ handle_trump_selection_ret(game, player_id, action, suit)
    /\ Sent(TRUE)
    /\ game' = handle_trump_selection(game, player_id, action, suit, 1)
    /\ Ends(TRUE, game', ai_timers, pending)
    /\ last_call' = action
    /\ UNCHANGED <<rounds, probe>>

\* the going_alone message of a human
going_alone_message(player_id, going_alone) ==
    /\ player_id \in Humans(game)
    /\ handle_going_alone_ret(game, player_id)
    /\ Sent(OrderlyAlone(game, player_id, going_alone))
    /\ game' = handle_going_alone(game, player_id, going_alone)
    /\ Ends(TRUE, game', ai_timers, pending)
    /\ last_call' = "going_alone"
    /\ UNCHANGED <<rounds, probe>>

\* the play_card message of a human
play_card_message(player_id, card) ==
    /\ player_id \in Humans(game)
    /\ Len(game.completed_tricks) < MaxAITricks
    /\ play_card_ret(game, player_id, card)
    /\ Sent(OrderlyPlay(game, player_id, card))
    /\ game' = play_card(game, player_id, card, 1)
    /\ Ends(TRUE, game', ai_timers, pending)
    /\ last_call' = "play_card"
    /\ UNCHANGED <<rounds, probe>>

\* the sleep of a task ends and it runs make_ai_decision for its id
DelayedAction(player_id) ==
    /\ pending[player_id] > 0
    /\ game.phase = PLAYING => Len(game.completed_tricks) < MaxAITricks
    /\ \E d \in make_ai_decision(game, player_id) :
          /\ game' = d.game
          /\ Ends(d.success, d.game,
                  [ai_timers EXCEPT ![player_id] =
                      IF pending[player_id] = 1 THEN "done" ELSE @],
                  [pending EXCEPT ![player_id] = @ - 1])
    /\ last_call' = player_id
    /\ UNCHANGED <<rounds, wild, probe>>

NextAI ==
    \/ \E p \in PlayerIds : join_room(p)
    \/ add_ai_player
    \/ \E p \in PlayerIds : leave_room(p)
    \/ start_game_message
    \/ \E p \in PlayerIds, a \in BidActions :
          \E s \in SentSuits(a) : trump_selection_message(p, a, s)
    \/ \E p \in PlayerIds, b \in BOOLEAN : going_alone_message(p, b)
    \/ \E p \in PlayerIds :
          \E c \in PlayChoices(game, p) : play_card_message(p, c)
    \/ \E a \in AIIds : DelayedAction(a)

SpecAI == Init /\ [][NextAI]_vars

----------------------------------------------------------------------------
(* Leaving a started game *)

\* no player has left since the cards were dealt
Intact(g) == g.phase = WAITING_FOR_PLAYERS \/ Len(g.player_order) = 4

\* the leave_room message of a connection opened under the id of a seated
\* player, human or AI (the id is the path of the websocket), the first to
\* leave a started game: the player is taken out of players and
\* player_order, nothing is broadcast and no task is cancelled
leave_started_game(player_id) ==
    /\ player_id \in DOMAIN game.players
    /\ game.phase \in {TRUMP_SELECTION, PLAYING}
    /\ Len(game.player_order) = 4
    /\ game' = [game EXCEPT
                  !.players = [p \in DOMAIN game.players \ {player_id} |->
                                  game.players[p]],
                  !.player_order = Remove(@, player_id)]
    /\ last_call' = "leave_room"
    /\ broadcast' = "none"
    /\ UNCHANGED <<rounds, wild, probe, ai_timers, pending>>

\* the messages and the timers up to the first leave, and after it the
\* timers of the player that left
NextLeave ==
    \/ \E p \in PlayerIds : Intact(game) /\ join_room(p)
    \/ Intact(game) /\ add_ai_player
    \/ \E p \in PlayerIds, a \in BidActions :
          \E s \in SentSuits(a) :
             Intact(game) /\ trump_selection_message(p, a, s)
    \/ \E p \in TimerIds : leave_started_game(p)
    \/ \E a \in AIIds :
          (Intact(game) \/ a \notin DOMAIN game.players) /\ DelayedAction(a)

SpecLeave == Init /\ [][NextLeave]_vars

----------------------------------------------------------------------------
(* Steps, seen from outside: which call a step of the game was *)

\* this step is an accepted play_card(player_id, card): the card has left the
\* hand, unless the play ended the round and the hands were dealt anew
PlayedStep(player_id, card) ==
    /\ game' # game
    /\ play_card_ret(game, player_id, card)
    /\ \/ game'.players[player_id].hand = Remove(game.players[player_id].hand, card)
       \/ Len(game.completed_tricks) = 4
    /\ \E k \in Draws(Len(game.completed_tricks) = 4
                        /\ Len(game.current_trick.cards) = 3) :
          game' = play_card(game, player_id, card, k)

\* this step is an accepted handle_trump_selection(player_id, action, suit)
BidStep(player_id, action, suit) ==
    /\ game' # game
    /\ handle_trump_selection_ret(game, player_id, action, suit)
    /\ \E k \in Draws(action = "pass" /\ game.trump_selection_round = 2) :
          game' = handle_trump_selection(game, player_id, action, suit, k)

\* this step called deal_cards
DealStep ==
    \/ /\ Cardinality(DOMAIN game.players) = 3
       /\ Cardinality(DOMAIN game'.players) = 4
    \/ /\ vars' # vars
       /\ start_game_ret(game)
       /\ game'.phase = TRUMP_SELECTION
       /\ game'.trump_selection_round = 1
       /\ game'.current_trick = game.current_trick
       /\ game'.trump_selection_player_index = (game.dealer_index + 1) % 4
       /\ \E k \in 1..NumShuffles : game' = start_game(game, k)
    \/ /\ game.phase = TRUMP_SELECTION
       /\ game.trump_selection_round = 2
       /\ (game.trump_selection_player_index + 1) % 4 = (game.dealer_index + 1) % 4
       /\ BidStep(game.player_order[game.trump_selection_player_index + 1], "pass", None)
    \/ /\ Len(game.completed_tricks) = 4
       /\ Len(game.current_trick.cards) = 3
       /\ Len(game'.completed_tricks) = 0
       /\ game'.phase = TRUMP_SELECTION
       /\ \E p \in DOMAIN game.players :
             \E c \in Range(game.players[p].hand) : PlayedStep(p, c)

----------------------------------------------------------------------------
(* Card accounting *)

\* the cards of a sequence of (player, card) entries
EntryCards(entries) == [i \in 1..Len(entries) |-> entries[i][2]]

RECURSIVE Flatten(_)
Flatten(seqs) ==
    IF Len(seqs) = 0 THEN << >> ELSE Head(seqs) \o Flatten(Tail(seqs))

\* the cards in the four hands, one after the other
HandCards(g) ==
    Flatten([i \in 1..Len(g.player_order) |-> g.players[g.player_order[i]].hand])

\* the three cards of the deck below the turned card
Unused(g) == SubSeq(g.deck, HandSize * 4 + 2, 24)

NoDuplicates(s) == \A i, j \in 1..Len(s) : i # j => s[i] # s[j]

----------------------------------------------------------------------------
(* C1: immediately after every deal (4th join, start_game, all-pass in       *)
(* round 2, new round) every hand holds exactly 5 cards, and the 20 hand     *)
(* cards, the turned card and the 3 unused deck cards are 24 pairwise        *)
(* distinct cards that cover every (suit, rank) combination.                 *)

DealIsComplete(g) ==
    LET all == HandCards(g) \o <<g.trump_card>> \o Unused(g)
    IN  /\ \A p \in DOMAIN g.players : Len(g.players[p].hand) = 5
        /\ Len(all) = 24
        /\ NoDuplicates(all)
        /\ Range(all) = Cards

C1_DealIsComplete == [][DealStep => DealIsComplete(game')]_vars

\* a second round has been dealt after the first one was scored
C1_Witness ==
    /\ FreshDeal(game)
    /\ rounds = 2
    /\ game.team_scores[0] + game.team_scores[1] > 0

----------------------------------------------------------------------------
(* C2: on a started game, after any sequence of accepted calls, the cards in *)
(* the four hands, the current trick, the completed tricks and the undealt   *)
(* kitty (the turned card while it is not picked up, plus the 3 unused       *)
(* cards) total 24 and no card is in two places.                             *)

\* the turned card went to the dealer's hand: bidding is over and trump is
\* the turned suit, which name_trump cannot name
PickedUp(g) == g.phase # TRUMP_SELECTION /\ g.trump_suit = g.trump_card.suit

\* every place of the table a card can be in, one after the other
CardsOnTable(g) ==
    HandCards(g)
      \o EntryCards(g.current_trick.cards)
      \o Flatten([i \in 1..Len(g.completed_tricks) |->
                     EntryCards(g.completed_tricks[i].cards)])
      \o (IF PickedUp(g) THEN << >> ELSE <<g.trump_card>>)
      \o Unused(g)

C2_CardsConserved ==
    game.phase # WAITING_FOR_PLAYERS =>
        /\ Len(CardsOnTable(game)) = 24
        /\ NoDuplicates(CardsOnTable(game))

----------------------------------------------------------------------------
(* C3: play_card is accepted only when the phase is PLAYING and the caller   *)
(* is the player at current_player_index; no step of the game is an accepted *)
(* play by another player or in another phase.                               *)

C3_PlayOnlyInTurn ==
    [][\A p \in DOMAIN game.players :
          \A c \in Range(game.players[p].hand) :
             PlayedStep(p, c) =>
                /\ game.phase = PLAYING
                /\ p = game.player_order[game.current_player_index + 1]]_vars

----------------------------------------------------------------------------
(* C4: an accepted order_up does not put the game into the PLAYING phase:    *)
(* play begins only after the dealer has discarded a held card and is back   *)
(* to 5 cards.                                                               *)

C4_DiscardBeforePlay ==
    [][\A p \in DOMAIN game.players :
          BidStep(p, "order_up", None) =>
             /\ game'.phase # PLAYING
             /\ \A q \in DOMAIN game'.players : Len(game'.players[q].hand) <= HandSize]_vars

----------------------------------------------------------------------------
(* C5: can_play_card(player, card) is false when the card is not in the      *)
(* player's hand; true for every held card when the current trick is empty;  *)
(* and, the trick not being empty, true exactly for the held cards of the    *)
(* effective suit of the first card when the player holds such a card, and   *)
(* true for every held card when the player holds none.                      *)

\* the effective suit of the first card of the current trick
LeadSuit(g) == get_effective_suit(g, g.current_trick.cards[1][2])

\* what the claim says of a card the player holds
MayFollow(g, hand, card) ==
    \/ Len(g.current_trick.cards) = 0
    \/ get_effective_suit(g, card) = LeadSuit(g)
    \/ \A held \in hand : get_effective_suit(g, held) # LeadSuit(g)

C5_FollowSuit ==
    \A p \in PlayerIds :
        LET hand == IF p \in DOMAIN game.players
                    THEN Range(game.players[p].hand) ELSE {}
        IN  /\ \A c \in Cards \ hand : ~can_play_card(game, p, c)
            /\ \A c \in hand : can_play_card(game, p, c) <=> MayFollow(game, hand, c)

\* a trick is under way and a player holds the left bower, which follows the
\* trump lead, next to a card that may not be played
C5_Witness ==
    /\ game.phase = PLAYING
    /\ Len(game.current_trick.cards) > 0
    /\ \E p \in DOMAIN game.players :
          \E c1, c2 \in Range(game.players[p].hand) :
             /\ c1.rank = JACK
             /\ c1.suit # LeadSuit(game)
             /\ get_effective_suit(game, c1) = LeadSuit(game)
             /\ get_effective_suit(game, c2) # LeadSuit(game)
             /\ can_play_card(game, p, c1)
             /\ ~can_play_card(game, p, c2)

----------------------------------------------------------------------------
(* C6: when the fourth card completes a trick of 4 distinct cards, the       *)
(* winner the game records (the winner field of the archived trick, and the  *)
(* player who leads next) is the player whose card has the strictly greatest *)
(* get_card_value under the round's trump suit and the effective suit of the *)
(* first card; that greatest value is reached by one card only.              *)

\* the entries of the trick that play_card(player_id, card) completes
CompletedEntries(g, player_id, card) ==
    Append(g.current_trick.cards, <<player_id, card>>)

EntryValue(g, entries, i) ==
    get_card_value(entries[i][2], g.trump_suit, get_effective_suit(g, entries[1][2]))

\* entry i beats every other entry of the trick
StrictlyGreatest(g, entries, i) ==
    \A j \in 1..Len(entries) : j # i => EntryValue(g, entries, j) < EntryValue(g, entries, i)

\* the winner the step has recorded is player w
RecordedWinner(w) ==
    /\ game'.player_order[game'.current_player_index + 1] = w
    /\ Len(game'.completed_tricks) > 0 =>
          game'.completed_tricks[Len(game'.completed_tricks)].winner = w

C6_TrickWinner ==
    [][(Len(game.current_trick.cards) = 3 /\ game.trump_suit # None) =>
          \A p \in DOMAIN game.players :
             \A c \in Range(game.players[p].hand) :
                (PlayedStep(p, c) /\ NoDuplicates(EntryCards(CompletedEntries(game, p, c)))) =>
                   \E i \in 1..4 :
                      /\ StrictlyGreatest(game, CompletedEntries(game, p, c), i)
                      /\ RecordedWinner(CompletedEntries(game, p, c)[i][1])]_vars

\* a completed trick that was led in a plain suit and won by a trump played
\* by another player
C6_Witness ==
    /\ game.phase = PLAYING
    /\ wild = 0
    /\ \E n \in 1..Len(game.completed_tricks) :
          LET t == game.completed_tricks[n]
          IN  /\ t.winner # t.leader
              /\ ~is_trump(game, t.cards[1][2])
              /\ \E i \in 2..4 : t.cards[i][1] = t.winner /\ is_trump(game, t.cards[i][2])

----------------------------------------------------------------------------
(* C7: when the fifth trick of a round is archived exactly one team's score  *)
(* grows: the trump maker's team gets 4 for all 5 tricks with going_alone    *)
(* set, 2 for all 5 tricks without, 1 for 3 or 4 tricks; with 2 tricks or    *)
(* fewer the other team gets 2, going alone or not.                          *)

TeamOf(g, player_id) == g.players[player_id].position % 2

\* tricks of the round that went to the trump maker's team, the one that
\* play_card(player_id, card) completes included
MakersTricks(g, player_id, card) ==
    LET makers == TeamOf(g, g.trump_maker)
        fifth == trick_winner(g, CompletedEntries(g, player_id, card))
    IN  Cardinality({n \in 1..4 : TeamOf(g, g.completed_tricks[n].winner) = makers})
          + (IF TeamOf(g, fifth) = makers THEN 1 ELSE 0)

ScoredTeam(g, won) ==
    IF won >= 3 THEN TeamOf(g, g.trump_maker) ELSE 1 - TeamOf(g, g.trump_maker)

ScoredPoints(g, won) ==
    IF won = 5 THEN (IF g.going_alone # None THEN 4 ELSE 2)
    ELSE IF won >= 3 THEN 1
    ELSE 2

C7_RoundScore ==
    [][(/\ Len(game.completed_tricks) = 4
        /\ Len(game.current_trick.cards) = 3
        /\ game.trump_suit # None) =>
          \A p \in DOMAIN game.players :
             \A c \in Range(game.players[p].hand) :
                PlayedStep(p, c) =>
                   LET won == MakersTricks(game, p, c)
                       team == ScoredTeam(game, won)
                   IN  /\ game'.team_scores[team] =
                             game.team_scores[team] + ScoredPoints(game, won)
                       /\ game'.team_scores[1 - team] = game.team_scores[1 - team]]_vars

\* the first round was swept by a maker who went alone: 4 points
C7_Witness ==
    /\ rounds = 2
    /\ wild = 0
    /\ FreshDeal(game)
    /\ \E t \in {0, 1} : game.team_scores[t] = 4 /\ game.team_scores[1 - t] = 0

----------------------------------------------------------------------------
(* C8: in every state between two calls the phase is GAME_COMPLETE if and    *)
(* only if a team has 10 points or more.                                     *)

C8_CompleteIffTen ==
    game.phase = GAME_COMPLETE <=>
        (game.team_scores[0] >= WinningScore \/ game.team_scores[1] >= WinningScore)

----------------------------------------------------------------------------
(* C9: GAME_COMPLETE is terminal: once the phase is GAME_COMPLETE no call    *)
(* changes the phase, the team scores, the hands or the tricks.              *)

C9_CompleteIsTerminal ==
    [][game.phase = GAME_COMPLETE =>
          /\ game'.phase = GAME_COMPLETE
          /\ game'.team_scores = game.team_scores
          /\ game'.players = game.players
          /\ game'.current_trick = game.current_trick
          /\ game'.completed_tricks = game.completed_tricks]_vars

----------------------------------------------------------------------------
(* C10: handle_trump_selection returns True exactly when the phase is        *)
(* TRUMP_SELECTION, the caller is the player at trump_selection_player_index *)
(* and the action is order_up in round 1, name_trump in round 2 with a suit  *)
(* other than the turned card's, or pass; every other call returns False.    *)

\* the words a client may send, and one the engine does not know
SentActions == BidActions \cup {"discard"}

C10_BidAcceptance ==
    \A p \in PlayerIds, a \in SentActions :
      \A s \in SentSuits(a) :
        handle_trump_selection_ret(game, p, a, s) <=>
            /\ game.phase = TRUMP_SELECTION
            /\ p = game.player_order[game.trump_selection_player_index + 1]
            /\ \/ a = "order_up" /\ game.trump_selection_round = 1
               \/ /\ a = "name_trump"
                  /\ game.trump_selection_round = 2
                  /\ s # None
                  /\ s # game.trump_card.suit
               \/ a = "pass"

\* the second round of bidding has come to the dealer
C10_Witness ==
    /\ game.phase = TRUMP_SELECTION
    /\ game.trump_selection_round = 2
    /\ game.trump_selection_player_index = game.dealer_index
    /\ rounds = 2

----------------------------------------------------------------------------
(* C11: a call that returns False (add_player, start_game,                   *)
(* handle_trump_selection, handle_going_alone, play_card) leaves the whole   *)
(* game as it was: hands, tricks, trump fields, seat pointers, bidding       *)
(* round, phase and scores.                                                  *)

\* the cards a caller names in a play: every card of its own hand and, of
\* the cards it does not hold, the turned card and the first card of each
\* other hand
NamedCards(g, player_id) ==
    {g.trump_card}
      \cup {g.players[q].hand[1] : q \in {r \in DOMAIN g.players : Len(g.players[r].hand) > 0}}
      \cup (IF player_id \in DOMAIN g.players
            THEN Range(g.players[player_id].hand) ELSE {})

C11_RejectedChangesNothing ==
    [](/\ \A p \in PlayerIds, ai \in BOOLEAN, k \in 1..NumShuffles :
             add_player_ret(game, p) \/ add_player(game, p, ai, k) = game
       /\ \A k \in 1..NumShuffles :
             start_game_ret(game) \/ start_game(game, k) = game
       /\ \A p \in PlayerIds, a \in SentActions :
             \A s \in SentSuits(a), k \in Draws(FALSE) :
                \/ handle_trump_selection_ret(game, p, a, s)
                \/ handle_trump_selection(game, p, a, s, k) = game
       /\ \A p \in PlayerIds, b \in BOOLEAN :
             handle_going_alone_ret(game, p) \/ handle_going_alone(game, p, b) = game
       /\ \A p \in PlayerIds :
             \A c \in NamedCards(game, p), k \in Draws(FALSE) :
                play_card_ret(game, p, c) \/ play_card(game, p, c, k) = game)

\* the bidder of round 2 names the turned suit, declares alone and plays a
\* card that follows no suit of the trick: all three are refused
C11_Witness ==
    /\ game.phase = TRUMP_SELECTION
    /\ game.trump_selection_round = 2
    /\ Len(game.current_trick.cards) > 0
    /\ LET bidder == game.player_order[game.trump_selection_player_index + 1]
       IN  /\ ~handle_trump_selection_ret(game, bidder, "name_trump", game.trump_card.suit)
           /\ ~handle_going_alone_ret(game, bidder)
           /\ \E c \in Range(game.players[bidder].hand) : ~play_card_ret(game, bidder, c)
           /\ ~add_player_ret(game, "p5")

----------------------------------------------------------------------------
(* C12: an accepted order_up sets trump_suit to the turned card's suit and   *)
(* trump_maker to the caller, and adds the turned card to the dealer's hand, *)
(* so that the dealer holds 6 cards and every other hand is unchanged at 5;  *)
(* the scores and the dealer are unchanged.                                  *)

Dealer(g) == g.player_order[g.dealer_index + 1]

C12_OrderUp ==
    [][\A p \in DOMAIN game.players :
          BidStep(p, "order_up", None) =>
             /\ game'.trump_suit = game.trump_card.suit
             /\ game'.trump_maker = p
             /\ game'.players[Dealer(game)].hand =
                   Append(game.players[Dealer(game)].hand, game.trump_card)
             /\ Len(game'.players[Dealer(game)].hand) = HandSize + 1
             /\ \A q \in DOMAIN game.players \ {Dealer(game)} :
                   /\ game'.players[q].hand = game.players[q].hand
                   /\ Len(game'.players[q].hand) = HandSize
             /\ game'.team_scores = game.team_scores
             /\ game'.dealer_index = game.dealer_index]_vars

----------------------------------------------------------------------------
(* C13: an accepted name_trump (round 2, a suit other than the turned        *)
(* card's) sets trump_suit to the named suit and trump_maker to the caller,  *)
(* starts the play and changes no hand: all four players, the dealer         *)
(* included, hold exactly 5 cards; the trump suit is not the turned suit.    *)

C13_NameTrump ==
    [][\A p \in DOMAIN game.players, s \in Suits :
          BidStep(p, "name_trump", s) =>
             /\ game.trump_selection_round = 2
             /\ s # game.trump_card.suit
             /\ game'.trump_suit = s
             /\ game'.trump_suit # game'.trump_card.suit
             /\ game'.trump_maker = p
             /\ game'.phase = PLAYING
             /\ game'.current_player_index = (game.dealer_index + 1) % 4
             /\ \A q \in DOMAIN game.players :
                   /\ game'.players[q].hand = game.players[q].hand
                   /\ Len(game'.players[q].hand) = HandSize]_vars

----------------------------------------------------------------------------
(* C14: in bidding round 1 an accepted pass moves the bidding seat to the    *)
(* next seat mod 4; the bidding round becomes 2 exactly when the seat is     *)
(* back at the first bidder, left of the dealer, which is when the dealer,   *)
(* fourth to bid, has passed; hands, turned card, dealer and scores are as   *)
(* before.                                                                   *)

C14_RoundOnePass ==
    [][\A p \in DOMAIN game.players :
          (/\ game.phase = TRUMP_SELECTION
           /\ game.trump_selection_round = 1
           /\ BidStep(p, "pass", None))
          => /\ game'.trump_selection_player_index
                  = (game.trump_selection_player_index + 1) % 4
             /\ game'.trump_selection_round \in {1, 2}
             /\ game'.trump_selection_round = 2
                  <=> game'.trump_selection_player_index = (game.dealer_index + 1) % 4
             /\ game'.trump_selection_round = 2 <=> p = Dealer(game)
             /\ game'.phase = TRUMP_SELECTION
             /\ game'.players = game.players
             /\ game'.trump_card = game.trump_card
             /\ game'.dealer_index = game.dealer_index
             /\ game'.team_scores = game.team_scores]_vars

\* the dealer has just passed in round 1: round 2 opens at the first bidder
C14_Witness ==
    /\ last_call = "pass"
    /\ game.phase = TRUMP_SELECTION
    /\ game.trump_selection_round = 2
    /\ game.trump_selection_player_index = (game.dealer_index + 1) % 4

----------------------------------------------------------------------------
(* C15: when the fourth player passes in bidding round 2 the deal is void    *)
(* and a fresh one is made: the deck is a shuffle of the 24 cards, every     *)
(* hand is 5 cards of its first 20, no card twice, the turned card is the    *)
(* 21st, the bidding is back in round 1 at the seat left of the same dealer, *)
(* the phase is still TRUMP_SELECTION and the scores are as before.          *)

C15_AllPassRedeals ==
    [][\A p \in DOMAIN game.players :
          (/\ game.phase = TRUMP_SELECTION
           /\ game.trump_selection_round = 2
           /\ p = Dealer(game)
           /\ BidStep(p, "pass", None))
          => /\ \E k \in 1..NumShuffles : game'.deck = Shuffle(k)
             /\ Len(game'.deck) = 24
             /\ Range(game'.deck) = Cards
             /\ \A q \in DOMAIN game'.players :
                   /\ Len(game'.players[q].hand) = HandSize
                   /\ Range(game'.players[q].hand)
                        \subseteq Range(SubSeq(game'.deck, 1, HandSize * Seats))
             /\ NoDuplicates(HandCards(game'))
             /\ game'.trump_card = game'.deck[HandSize * Seats + 1]
             /\ game'.trump_selection_round = 1
             /\ game'.trump_selection_player_index = (game.dealer_index + 1) % 4
             /\ game'.phase = TRUMP_SELECTION
             /\ game'.dealer_index = game.dealer_index
             /\ game'.team_scores = game.team_scores]_vars

\* the dealer has just passed in round 2: the cards have been dealt anew
C15_Witness ==
    /\ last_call = "pass"
    /\ FreshDeal(game)

----------------------------------------------------------------------------
(* C16: handle_going_alone returns False for every caller who is not the     *)
(* current trump maker, so for every caller while no trump maker is set, and *)
(* then leaves going_alone as it was; for the trump maker it returns True    *)
(* and sets going_alone to the caller when the flag is true, to none when it *)
(* is false.                                                                 *)

C16_GoingAlone ==
    \A p \in PlayerIds, b \in BOOLEAN :
       /\ handle_going_alone_ret(game, p) <=> p = game.trump_maker
       /\ game.trump_maker = None => ~handle_going_alone_ret(game, p)
       /\ p # game.trump_maker
            => handle_going_alone(game, p, b).going_alone = game.going_alone
       /\ p = game.trump_maker
            => handle_going_alone(game, p, b).going_alone = (IF b THEN p ELSE None)

\* the maker has just declared to go alone
C16_Witness ==
    /\ last_call = "going_alone"
    /\ game.trump_maker \in DOMAIN game.players
    /\ game.going_alone = game.trump_maker

----------------------------------------------------------------------------
(* C17: once the first card of a round has been played, handle_going_alone   *)
(* is rejected for every caller, and going_alone keeps its value until the   *)
(* round is scored.                                                          *)

\* a card of the current round has been played
PlayStarted(g) ==
    /\ g.phase = PLAYING
    /\ Len(g.current_trick.cards) + Len(g.completed_tricks) > 0

C17_AloneOnlyBeforePlay ==
    [][PlayStarted(game)
         => /\ \A p \in PlayerIds : ~handle_going_alone_ret(game, p)
            /\ ~StartsRound(game, game') => game'.going_alone = game.going_alone]_vars

----------------------------------------------------------------------------
(* C18: with 4 players seated add_player returns False and changes nothing.  *)
(* Otherwise it returns True and seats the caller at the position that is    *)
(* the number of players seated before, one of 0..3, which the player keeps  *)
(* ever after; the 4th join deals, leaving the game in TRUMP_SELECTION with  *)
(* 5 cards in every hand, and with fewer than 4 players the phase is         *)
(* WAITING_FOR_PLAYERS.                                                      *)

\* the number of players seated
Seated(g) == Cardinality(DOMAIN g.players)

\* this step is an accepted add_player(player_id, ...)
JoinStep(player_id) ==
    /\ player_id \notin DOMAIN game.players
    /\ player_id \in DOMAIN game'.players
    /\ \E ai \in BOOLEAN, k \in 1..NumShuffles :
          game' = add_player(game, player_id, ai, k)

C18_AddPlayer ==
    /\ [](/\ Seated(game) = 4
             => \A p \in PlayerIds, ai \in BOOLEAN, k \in Draws(FALSE) :
                   /\ ~add_player_ret(game, p)
                   /\ add_player(game, p, ai, k) = game
          /\ Seated(game) < 4 => game.phase = WAITING_FOR_PLAYERS)
    /\ [][/\ \A q \in DOMAIN game.players :
                /\ q \in DOMAIN game'.players
                /\ game'.players[q].position = game.players[q].position
          /\ \A p \in PlayerIds :
                JoinStep(p)
                => /\ add_player_ret(game, p)
                   /\ game'.players[p].position = Seated(game)
                   /\ game'.players[p].position \in 0..3
                   /\ game'.player_order = Append(game.player_order, p)
                   /\ Seated(game') = Seated(game) + 1
                   /\ IF Seated(game') = 4
                      THEN /\ game'.phase = TRUMP_SELECTION
                           /\ \A q \in DOMAIN game'.players :
                                 Len(game'.players[q].hand) = HandSize
                      ELSE /\ game'.phase = WAITING_FOR_PLAYERS
                           /\ \A q \in DOMAIN game'.players :
                                 Len(game'.players[q].hand) = 0]_vars

\* the fourth player has just joined and a fifth is refused
C18_Witness ==
    /\ last_call = "add_player"
    /\ Seated(game) = 4
    /\ game.phase = TRUMP_SELECTION
    /\ ~add_player_ret(game, "p5")

----------------------------------------------------------------------------
(* C19: start_game on a game of exactly 4 players returns True and leaves    *)
(* the game in TRUMP_SELECTION with every player holding exactly 5 cards and *)
(* current_player_index one of the seats 0..3; on a game of any other number *)
(* of players it returns False and changes nothing.                          *)

\* what start_game leaves behind
Started(g) ==
    /\ g.phase = TRUMP_SELECTION
    /\ \A q \in DOMAIN g.players : Len(g.players[q].hand) = HandSize
    /\ g.current_player_index \in 0..3

\* this step is an accepted start_game()
StartStep ==
    /\ last_call' = "start_game"
    /\ \E k \in 1..NumShuffles : game' = start_game(game, k)

C19_StartGame ==
    /\ [](/\ start_game_ret(game) <=> Seated(game) = 4
          /\ \A k \in 1..NumShuffles :
                IF Seated(game) = 4
                THEN Started(start_game(game, k))
                ELSE start_game(game, k) = game)
    /\ [][StartStep => Seated(game) = 4 /\ Started(game')]_vars

\* start_game has just dealt the cards again after a card had been played
C19_Witness ==
    /\ last_call = "start_game"
    /\ Started(game)
    /\ Len(game.current_trick.cards) > 0

----------------------------------------------------------------------------
(* C20: the snapshot get_game_state returns for a player is the same for two *)
(* games that differ only in which cards the other players hold, hand sizes  *)
(* being equal; it lists the other players with their hand sizes and without *)
(* their cards, and for an id without a seat it is empty.                    *)

\* the game with every card in the hands of the others replaced by card,
\* or, without a card, with the hands of the others reversed
Masked(g, player_id, card) ==
    [g EXCEPT !.players =
        [q \in DOMAIN g.players |->
            IF q = player_id THEN g.players[q]
            ELSE [g.players[q] EXCEPT !.hand =
                    [j \in 1..Len(@) |->
                        IF card = NoCard THEN @[Len(@) + 1 - j] ELSE card]]]]

C20_SnapshotHidesOtherHands ==
    /\ \A p \in DOMAIN game.players :
          LET view == get_game_state(game, p)
          IN  /\ \A c \in {NoCard, Card(SPADES, 9), Card(HEARTS, 11)} :
                    get_game_state(Masked(game, p, c), p) = view
              /\ view.hand = game.players[p].hand
              /\ "deck" \notin DOMAIN view
              /\ Len(view.players) = Seated(game)
              /\ \A i \in 1..Len(view.players) :
                    /\ DOMAIN view.players[i] = {"id", "position", "hand_size", "is_ai"}
                    /\ view.players[i].hand_size
                         = Len(game.players[view.players[i].id].hand)
    /\ \A p \in PlayerIds \ DOMAIN game.players :
          DOMAIN get_game_state(game, p) = {}

\* a game in play in which the view of the maker, who is not the dealer,
\* shows the dealer with 6 cards, and an id without a seat
C20_Witness ==
    /\ game.phase = PLAYING
    /\ game.trump_maker \in DOMAIN game.players \ {Dealer(game)}
    /\ Masked(game, game.trump_maker, NoCard) # game
    /\ get_game_state(game, game.trump_maker).players[game.dealer_index + 1].hand_size
         = HandSize + 1
    /\ DOMAIN get_game_state(game, "p5") = {}

----------------------------------------------------------------------------
(* C22: the value EuchreAI.get_card_value gives a card equals the value      *)
(* EuchreGame.get_card_value gives it, for every card, trump suit and lead   *)
(* suit, and the card get_winning_card finds on a partial trick is the card  *)
(* the ranking of the engine makes the highest.                              *)

C22_SameRanking ==
    (probe.applied /\ probe.trump_suit # None)
    => /\ probe.ai.get_card_value = probe.engine.get_card_value
       /\ probe.ai.winning_card = probe.engine.winning_card

----------------------------------------------------------------------------
(* C23: for every card and trump suit, is_trump holds exactly when           *)
(* get_effective_suit is the trump suit: the left bower, the jack of the     *)
(* other suit of the colour of trump, has effective suit trump and is trump, *)
(* every card of the trump suit is trump, and every other card is not trump  *)
(* and keeps the suit printed on it.                                         *)

\* the other suit of the same colour
OtherSuit(su) ==
    CASE su = HEARTS -> DIAMONDS
      [] su = DIAMONDS -> HEARTS
      [] su = CLUBS -> SPADES
      [] su = SPADES -> CLUBS

LeftBower(card, trump_suit) ==
    trump_suit \in Suits /\ card.rank = JACK /\ card.suit = OtherSuit(trump_suit)

C23_TrumpIffEffectiveSuit ==
    (probe.applied /\ probe.trump_suit # None)
    => LET c == probe.card
           t == probe.trump_suit
           e == probe.engine
       IN  /\ e.is_trump <=> e.get_effective_suit = t
           /\ LeftBower(c, t) => e.is_trump /\ e.get_effective_suit = t
           /\ c.suit = t => e.is_trump /\ e.get_effective_suit = t
           /\ (c.suit # t /\ ~LeftBower(c, t))
                => ~e.is_trump /\ e.get_effective_suit = c.suit

\* the functions have been applied to the jack of diamonds with hearts trump
C23_Witness ==
    /\ probe.applied
    /\ probe.card = Card(DIAMONDS, JACK)
    /\ probe.trump_suit = HEARTS
    /\ probe.engine.is_trump
    /\ probe.engine.get_effective_suit = HEARTS

----------------------------------------------------------------------------
(* C24: EuchreAI.is_trump and EuchreAI.get_effective_suit return what        *)
(* is_trump and get_effective_suit of the engine return, for every card and  *)
(* trump suit, and for every hand and partial trick the cards of             *)
(* EuchreAI.get_playable_cards are exactly the cards of the hand that        *)
(* can_play_card accepts.                                                    *)

C24_AIAgreesWithEngine ==
    probe.applied
    => /\ probe.ai.is_trump = probe.engine.is_trump
       /\ probe.ai.get_effective_suit = probe.engine.get_effective_suit
       /\ probe.ai.playable = probe.engine.playable

\* a hand of the jack of diamonds and the nine of diamonds on a lead of the
\* nine of hearts with hearts trump: only the jack may be played
C24_Witness ==
    /\ probe.applied
    /\ probe.trump_suit = HEARTS
    /\ probe.hand = <<Card(DIAMONDS, NINE), Card(DIAMONDS, JACK)>>
    /\ probe.trick = <<<<"p2", Card(HEARTS, NINE)>>>>
    /\ probe.ai.playable = {Card(DIAMONDS, JACK)}
    /\ probe.engine.playable = {Card(DIAMONDS, JACK)}

----------------------------------------------------------------------------
(* C28: trump_suit and trump_maker are set together or unset together: both  *)
(* are unset throughout trump negotiation, from a deal until an accepted     *)
(* order_up or name_trump, and both are set from then until the round is     *)
(* scored.                                                                   *)

C28_TrumpSetTogether ==
    /\ game.trump_suit = None <=> game.trump_maker = None
    /\ game.phase = TRUMP_SELECTION
         => game.trump_suit = None /\ game.trump_maker = None
    /\ game.phase = PLAYING
         => game.trump_suit # None /\ game.trump_maker # None

----------------------------------------------------------------------------
(* C29: no step lowers a team score; a score changes only in the play that   *)
(* archives the fifth trick of a round, and then the score of exactly one    *)
(* team grows, by 1, 2 or 4; bids, going-alone calls, joins and deals and    *)
(* every other play leave both scores as they were.                          *)

\* this step plays the card that archives the fifth trick
FifthTrickStep ==
    /\ last_call' = "play_card"
    /\ game.trump_suit # None
    /\ Len(game.completed_tricks) = 4
    /\ Len(game.current_trick.cards) = 3
    /\ Len(game'.current_trick.cards) = 0

C29_ScoresOnlyGrowAtRoundEnd ==
    [][/\ \A t \in {0, 1} : game'.team_scores[t] >= game.team_scores[t]
       /\ game'.team_scores # game.team_scores
            => /\ FifthTrickStep
               /\ \E t \in {0, 1} :
                     /\ game'.team_scores[t] - game.team_scores[t] \in {1, 2, 4}
                     /\ game'.team_scores[1 - t] = game.team_scores[1 - t]
       /\ FifthTrickStep => game'.team_scores # game.team_scores
       /\ (vars' # vars /\ last_call' # "play_card")
            => game'.team_scores = game.team_scores]_vars

\* the first round has just been scored
C29_Witness ==
    /\ last_call = "play_card"
    /\ rounds = 2
    /\ FreshDeal(game)
    /\ game.team_scores[0] + game.team_scores[1] \in {1, 2, 4}

----------------------------------------------------------------------------
(* C27: no state holds a malformed trick: between operations the current     *)
(* trick has 0 to 3 cards, never more than 4; every archived trick has       *)
(* exactly 4 cards and a recorded winner; completed_tricks never has more    *)
(* than 5 entries.                                                           *)

C27_WellFormedTricks ==
    /\ Len(game.current_trick.cards) <= 3
    /\ Len(game.completed_tricks) <= 5
    /\ \A i \in 1..Len(game.completed_tricks) :
          /\ Len(game.completed_tricks[i].cards) = 4
          /\ game.completed_tricks[i].winner \in DOMAIN game.players

----------------------------------------------------------------------------
(* C30: an accepted play that does not complete the trick moves              *)
(* current_player_index on by exactly one seat mod 4, going alone or not; an *)
(* accepted play that completes the trick, as its fourth card, leaves        *)
(* current_player_index at the seat of the winner of that trick, and the     *)
(* trick that follows empty for the winner to lead.                          *)

C30_TurnOrder ==
    [][\A p \in DOMAIN game.players :
          \A c \in Range(game.players[p].hand) :
             PlayedStep(p, c)
             => IF Len(game.current_trick.cards) = 3
                THEN /\ game'.current_player_index
                          = IndexOf(game.player_order,
                                    trick_winner(game, Append(game.current_trick.cards,
                                                              <<p, c>>)), 1) - 1
                     /\ Len(game'.current_trick.cards) = 0
                ELSE game'.current_player_index
                       = (game.current_player_index + 1) % 4]_vars

----------------------------------------------------------------------------
(* C21: the card an AI chooses *)

\* C21: in every PLAYING state in which an AI with cards in its hand is the
\* current player, choose_card_to_play returns a card, and whichever card
\* it returns, over the personalities and the outcomes of random, is in the
\* hand of the AI and is accepted by can_play_card and so by play_card
C21_AIChoiceIsLegal ==
    \A a \in AIIds \cap DOMAIN game.players :
       (/\ game.phase = PLAYING
        /\ current_player_id(game) = a
        /\ Len(game.players[a].hand) > 0)
       => LET chosen == EuchreAI_choose_card_to_play(game.players[a].hand,
                                                     get_game_state(game, a),
                                                     game.current_trick.cards)
          IN  /\ chosen # {}
              /\ \A card \in chosen :
                    /\ card \in Range(game.players[a].hand)
                    /\ can_play_card(game, a, card)
                    /\ play_card_ret(game, a, card)

\* the decision of an AI has just put a card of the suit led on a trick
\* another player led, from a hand that holds other suits too
C21_Witness ==
    /\ last_call \in AIIds
    /\ broadcast # "none"
    /\ game.phase = PLAYING
    /\ Len(game.current_trick.cards) >= 2
    /\ LET entry == game.current_trick.cards[Len(game.current_trick.cards)]
       IN  /\ entry[1] = last_call
           /\ get_effective_suit(game, entry[2]) = LeadSuit(game)
           /\ \E i \in 1..Len(game.players[last_call].hand) :
                 get_effective_suit(game, game.players[last_call].hand[i])
                    # LeadSuit(game)

----------------------------------------------------------------------------
(* C25: one pending decision for each AI *)

\* C25: at every moment each AI id has at most one task that sleeps before
\* a decision, and it is the task ai_timers holds for the id: a dispatch
\* that finds the id's task still in its sleep cancels it before it creates
\* the new one, so the two dispatches lead to one decision
C25_OnePendingDecision ==
    \A a \in AIIds :
       /\ ai_timers[a] \in TimerStates
       /\ pending[a] <= 1
       /\ pending[a] = 1 <=> ai_timers[a] = "sleeping"
       /\ broadcast = "rescheduled" /\ current_player_id(game) = a
             => pending[a] = 1

\* a dispatch has cancelled the sleeping task of an AI and created another
C25_Witness ==
    /\ broadcast = "rescheduled"
    /\ \E a \in AIIds : current_player_id(game) = a /\ pending[a] = 1

----------------------------------------------------------------------------
(* C26: decisions that come too late *)

\* the decision of the AI is stale: the AI is no longer in the game, or it
\* is not the seat that is to bid in TRUMP_SELECTION or to play in PLAYING
Stale(g, player_id) ==
    \/ player_id \notin DOMAIN g.players
    \/ g.phase \in {TRUMP_SELECTION, PLAYING}
          /\ current_player_id(g) # player_id

\* C26: when the sleep of a task ends and its AI is no longer in the game or
\* no longer the seat to act in the phase, make_ai_decision leaves the game
\* as it is and broadcasts nothing
C26_StaleDecisionDropped ==
    [][\A a \in AIIds :
          last_call' = a /\ Stale(game, a)
             => game' = game /\ broadcast' = "none"]_vars

----------------------------------------------------------------------------
(* C31: the play that scores a round without ending the game moves the       *)
(* dealer on by one seat mod 4, clears completed_tricks, trump_suit,         *)
(* trump_maker and going_alone, deals a fresh and complete deal and reopens  *)
(* the bidding in round 1 at the seat left of the new dealer; the bid that   *)
(* starts play leaves the dealer in place and makes the seat left of the     *)
(* dealer the current player, and in a game of orderly clients that seat     *)
(* leads the first trick.                                                    *)

\* the seat left of the dealer
LeftOfDealer(g) == (g.dealer_index + 1) % 4

C31_NextRound ==
    [][/\ FifthTrickStep /\ game'.phase # GAME_COMPLETE
            => /\ game'.dealer_index = (game.dealer_index + 1) % 4
               /\ game'.completed_tricks = << >>
               /\ game'.trump_suit = None
               /\ game'.trump_maker = None
               /\ game'.going_alone = None
               /\ game'.current_trick = Trick
               /\ DealIsComplete(game')
               /\ game'.phase = TRUMP_SELECTION
               /\ game'.trump_selection_round = 1
               /\ game'.trump_selection_player_index = LeftOfDealer(game')
       /\ game.phase = TRUMP_SELECTION /\ game'.phase = PLAYING
            => /\ game'.dealer_index = game.dealer_index
               /\ game'.current_player_index = LeftOfDealer(game)
       /\ (/\ wild' = 0
           /\ game'.phase = PLAYING
           /\ Len(game'.completed_tricks) = 0
           /\ Len(game.current_trick.cards) = 0
           /\ Len(game'.current_trick.cards) = 1)
            => game'.current_trick.leader
                  = game.player_order[LeftOfDealer(game) + 1]]_vars

\* the second round, dealt by the second seat, has reached its play and the
\* seat left of that dealer has led
C31_Witness ==
    /\ rounds = 2
    /\ wild = 0
    /\ game.dealer_index = 1
    /\ game.phase = PLAYING
    /\ Len(game.completed_tricks) = 0
    /\ Len(game.current_trick.cards) = 1
    /\ game.current_trick.leader = game.player_order[3]

----------------------------------------------------------------------------
(* C32: after every handler that changed the game and dispatched, when the   *)
(* seat now to act (the bidder in TRUMP_SELECTION, the current player in     *)
(* PLAYING; no phase owes a discard) is held by an AI, exactly one decision  *)
(* of that AI is pending and it was scheduled by this dispatch; a decision   *)
(* is scheduled by a dispatch only, and only for the AI that is to act; no   *)
(* decision is ever scheduled for a human.                                   *)

\* the handler of this step called broadcast_game_state
Dispatched == broadcast' # "none"

----------------------------------------------------------------------------
(* C33: a player that was taken out of the game has no pending decision:     *)
(* every task that still sleeps belongs to a seated player, so no decision   *)
(* runs for a player that left.                                              *)

C33_RemovedHasNoPendingDecision ==
    \A a \in TimerIds : pending[a] > 0 => a \in DOMAIN game.players

----------------------------------------------------------------------------
(* C34: should_call_trump returns a suit exactly when it says to call; in    *)
(* round 1 the suit is the suit of the turned card; in round 2 it is never   *)
(* that suit and no other suit but the turned one makes the hand stronger;   *)
(* and the bid the AI sends on its turn for the answer (order_up in round 1, *)
(* name_trump in round 2 with the suit, pass otherwise) is accepted by       *)
(* handle_trump_selection.                                                   *)

C34_CallNamesAcceptedSuit ==
    probe.applied =>
       /\ probe.calls # {}
       /\ probe.accepted = {TRUE}
       /\ \A answer \in probe.calls :
             /\ answer.call <=> answer.suit # None
             /\ answer.call /\ probe.round_num = 1
                   => answer.suit = probe.trump_card.suit
             /\ answer.call /\ probe.round_num = 2
                   => /\ answer.suit \in Suits \ {probe.trump_card.suit}
                      /\ \A su \in Suits \ {probe.trump_card.suit} :
                            EuchreAI_evaluate_hand_strength(probe.hand, su)
                               <= EuchreAI_evaluate_hand_strength(probe.hand,
                                                                  answer.suit)

\* in round 2 the AI has named the suit of the trump cards it holds, and it
\* has sent name_trump
C34_Witness ==
    /\ probe.applied
    /\ probe.round_num = 2
    /\ probe.trump_card.suit = HEARTS
    /\ probe.hand = <<Card(CLUBS, JACK), Card(CLUBS, ACE), Card(SPADES, JACK)>>
    /\ probe.calls = {[call |-> TRUE, suit |-> CLUBS]}

----------------------------------------------------------------------------
(* C35: should_go_alone answers yes, for every personality, for every hand   *)
(* that holds the right bower, the left bower and at least 3 trump cards.    *)

\* the hand holds the jack of the trump suit
HoldsRightBower(hand, trump_suit) == Card(trump_suit, JACK) \in Range(hand)

\* the hand holds the jack of the other suit of the trump colour
HoldsLeftBower(hand, trump_suit) ==
    \E card \in Range(hand) : LeftBower(card, trump_suit)

\* the trump cards of the hand, the left bower among them
TrumpCards(hand, trump_suit) ==
    {card \in Range(hand) : card.suit = trump_suit \/ LeftBower(card, trump_suit)}

----------------------------------------------------------------------------
(* C37: evaluate_hand_strength lies between 0 and 1 (0 and 100 hundredths);  *)
(* it is 0 when no trump suit is given and when the hand holds no trump card *)
(* and no ace; a hand with the right bower, the left bower and the ace of    *)
(* trump scores at least 25 + 20 + 15 + 15, more than 0.5 and more than any  *)
(* hand without a trump card.                                                *)

C37_HandStrength ==
    probe.applied =>
       LET trump_suit == probe.trump_card.suit
           NoTrumpCard(hand) == TrumpCards(hand, trump_suit) = {}
       IN  /\ probe.strength \in 0..100
           /\ probe.strength_no_trump = 0
           /\ (/\ NoTrumpCard(probe.hand)
               /\ \A card \in Range(probe.hand) : card.rank # ACE)
                 => probe.strength = 0
           /\ (/\ HoldsRightBower(probe.hand, trump_suit)
               /\ HoldsLeftBower(probe.hand, trump_suit)
               /\ Card(trump_suit, ACE) \in Range(probe.hand))
                 => /\ probe.strength >= 25 + 20 + 15 + 15
                    /\ probe.strength > 50
                    /\ \A hand \in BidHands :
                          NoTrumpCard(hand)
                             => EuchreAI_evaluate_hand_strength(hand, trump_suit)
                                   < probe.strength

\* the two bowers and the ace of spades score 0.75 with spades as trump
C37_Witness ==
    /\ probe.applied
    /\ probe.trump_card.suit = SPADES
    /\ probe.hand = <<Card(CLUBS, JACK), Card(SPADES, JACK), Card(SPADES, ACE)>>
    /\ probe.strength = 75
    /\ probe.strength_no_trump = 0

----------------------------------------------------------------------------
(* C36: on a partial trick with a trump suit set, choose_follow_card returns *)
(* a legal card; when some legal card outranks the card that is winning the  *)
(* trick, in the ranking of the engine for the suit led, it returns the      *)
(* lowest legal card that does, and otherwise a lowest legal card.           *)

C36_FollowWinsCheaply ==
    (/\ probe.applied
     /\ Len(probe.trick) > 0
     /\ Len(probe.hand) > 0
     /\ probe.trump_suit # None)
    => LET legal == probe.engine.playable
           leading_suit == get_effective_suit(ProbeGame(probe), probe.trick[1][2])
           Value(card) == get_card_value(card, probe.trump_suit, leading_suit)
           winners == {card \in legal :
                          Value(card) > Value(probe.engine.winning_card)}
       IN  /\ probe.ai.follow # {}
           /\ \A card \in probe.ai.follow :
                 /\ card \in legal
                 /\ IF winners # {}
                    THEN /\ card \in winners
                         /\ \A w \in winners : Value(card) <= Value(w)
                    ELSE \A l \in legal : Value(card) <= Value(l)

----------------------------------------------------------------------------
(* C38: going_alone is at every moment unset or the current trump_maker; it  *)
(* is unset throughout the trump negotiation; and the play that scores a     *)
(* round and starts the next one clears it.                                  *)

C38_AloneIsTheMaker ==
    /\ [](/\ game.going_alone \in {None, game.trump_maker}
          /\ game.phase = TRUMP_SELECTION => game.going_alone = None)
    /\ [][FifthTrickStep /\ game'.phase = TRUMP_SELECTION
             => game'.going_alone = None]_vars

----------------------------------------------------------------------------
(* C39: while every call is made in its turn, the player to act in the       *)
(* PLAYING phase always holds a card that can_play_card accepts; each player *)
(* plays one card to each trick, so a hand is its dealt size less the tricks *)
(* played to; and the play that scores the round is the 20th of that round,  *)
(* the fourth card of its fifth trick, and no earlier play scores it.        *)

\* the players of the cards of a trick, in the order played
TrickPlayers(cards) == [j \in 1..Len(cards) |-> cards[j][1]]

\* the accepted plays of the round so far
PlaysOfRound(g) == 4 * Len(g.completed_tricks) + Len(g.current_trick.cards)

\* the cards the player has played in the round so far
PlayedBy(g, player_id) ==
    Cardinality({i \in 1..Len(g.completed_tricks) :
                    player_id \in Range(TrickPlayers(g.completed_tricks[i].cards))})
    + (IF player_id \in Range(TrickPlayers(g.current_trick.cards)) THEN 1 ELSE 0)

C39_OrderlyRoundIsTwentyPlays ==
    /\ [](wild = 0 /\ game.phase = PLAYING =>
            /\ \E c \in Range(game.players[current_player_id(game)].hand) :
                  can_play_card(game, current_player_id(game), c)
            /\ Len(game.completed_tricks) <= 4
            /\ \A i \in 1..Len(game.completed_tricks) :
                  /\ Len(game.completed_tricks[i].cards) = 4
                  /\ Range(TrickPlayers(game.completed_tricks[i].cards))
                        = DOMAIN game.players
            /\ Cardinality(Range(TrickPlayers(game.current_trick.cards)))
                  = Len(game.current_trick.cards)
            /\ \A p \in DOMAIN game.players :
                  Len(game.players[p].hand) + PlayedBy(game, p)
                     = IF p = game.player_order[game.dealer_index + 1]
                          /\ game.trump_selection_round = 1
                       THEN HandSize + 1 ELSE HandSize)
    /\ [][wild' = 0 /\ last_call' = "play_card" =>
             /\ PlaysOfRound(game) < 20
             /\ (game'.team_scores # game.team_scores) <=> (PlaysOfRound(game) = 19)
             /\ PlaysOfRound(game) < 19 => PlaysOfRound(game') = PlaysOfRound(game) + 1]_vars

\* a round was scored by its 20th play and the next one is dealt
C39_Witness ==
    /\ wild = 0
    /\ rounds = 2
    /\ last_call = "play_card"
    /\ game.phase = TRUMP_SELECTION
    /\ game.team_scores[0] + game.team_scores[1] > 0
    /\ PlaysOfRound(game) = 0

----------------------------------------------------------------------------
(* C40: every scored round adds at least one point, so the scored rounds     *)
(* never outnumber the points and a game that is not complete has both       *)
(* scores below 10; the score that ends the game is between 10 and 13; and   *)
(* the only step that abandons a round in progress, dealing again without    *)
(* scoring, is the last pass of the second bidding round.                    *)

\* the points of both teams
Points(g) == g.team_scores[0] + g.team_scores[1]

\* the higher of the two scores
TopScore(g) ==
    IF g.team_scores[0] > g.team_scores[1]
    THEN g.team_scores[0] ELSE g.team_scores[1]

\* this step deals again over a round that had a bid or a play, scoring nothing
AbandonsRound ==
    /\ game.phase \in {TRUMP_SELECTION, PLAYING}
    /\ ~FreshDeal(game)
    /\ FreshDealt(game')
    /\ \A p \in DOMAIN game'.players : Len(game'.players[p].hand) = HandSize
    /\ game'.team_scores = game.team_scores

C40_OnlyAllPassVoidsARound ==
    /\ [](/\ TopScore(game) <= 13
          /\ game.phase = GAME_COMPLETE => TopScore(game) >= WinningScore
          /\ game.phase \in {TRUMP_SELECTION, PLAYING} =>
                /\ TopScore(game) < WinningScore
                /\ rounds - 1 <= Points(game))
    /\ [][/\ FifthTrickStep => Points(game') >= Points(game) + 1
          /\ AbandonsRound =>
                /\ last_call' = "pass"
                /\ game.phase = TRUMP_SELECTION
                /\ game.trump_selection_round = 2
                /\ game.trump_selection_player_index = game.dealer_index]_vars
====
